---- MODULE Spec2Model ----
(***************************************************************************)
(* Model of the warehouse allocator of market1 (src/market1/src/           *)
(* warehouse.rs): a grid of rows, columns and zones, the batch placement   *)
(* add_items_by_qty, the removals remove_item_by_qty / remove_all_items    *)
(* and the contiguous-space search; and of the slice sorts of sorting      *)
(* (src/sorting/src/main.rs).                                              *)
(*                                                                         *)
(* Option<T> is a sequence of length 0 (None) or 1 (Some).  A usize x is   *)
(* the integer x when x < 2^63 and x - 2^64 otherwise, so a value that     *)
(* wrapped below zero is a small negative integer; ULt is the unsigned     *)
(* order on that representation.                                           *)
(***************************************************************************)
EXTENDS Integers, Sequences, FiniteSets, TLC

VARIABLES warehouse, overflow_checks, last, pre, run, ops, nums, sort_call,
          product_list, file

vars ==
    <<warehouse, overflow_checks, last, pre, run, ops, nums, sort_call, product_list,
      file>>

\* ------------------------------------------------------------------ bounds
MaxRows == 2
MaxCols == 3
MaxZones == 3
MaxQty == 4
MaxDate == 2
MaxProduct == 2
MaxOps == 3
MaxSearchOps == 2
SlotRows == 2
SlotCols == 2
SlotZones == 2
MaxSlotOps == 2
MaxDeepOps == 4
WideRows == 2
WideCols == 5
WideZones == 2
MaxWideOps == 3
MoveRows == 1
MoveCols == 2
MoveZones == 2
MaxMoveOps == 2
StoreRows == 1
StoreCols == 2
StoreZones == 2
StoreProducts == 2
StoreQty == 3
MaxStoreOps == 3
MaxLen == 4
MaxVal == 3

Products == 1..MaxProduct
Dates == {<<>>} \cup {<<d>> : d \in 1..MaxDate}

\* ------------------------------------------------------- Option and usize
None == <<>>
Some(x) == <<x>>
is_some(o) == o # <<>>
is_none(o) == o = <<>>

ULt(a, b) == IF (a < 0) = (b < 0) THEN a < b ELSE b < 0

\* a - b panics when overflow checks are compiled in and b > a, else wraps
SubPanics(a, b) == overflow_checks /\ ULt(a, b)
\* a + b panics when overflow checks are compiled in and the sum passes 2^64
AddPanics(a, b) == overflow_checks /\ a < 0 /\ a + b >= 0

\* ------------------------------------------------------------------ results
Ok == [kind |-> "Ok", at |-> <<>>]
Err(kind, at) == [kind |-> kind, at |-> at]
Panic == [kind |-> "Panic", at |-> <<>>]
Hang == [kind |-> "Hang", at |-> <<>>]
InsufficientSpace == Err("InsufficientSpace", <<>>)
NoContiguousSpace == Err("NoContiguousSpace", <<>>)
NoProductFound == Err("NoProductFound", <<>>)
ZoneNotFound(r, c, z) == Err("ZoneNotFound", <<r, c, z>>)
ZoneOccupied(r, c, z) == Err("ZoneOccupied", <<r, c, z>>)
ZoneEmpty(r, c, z) == Err("ZoneEmpty", <<r, c, z>>)
ColumnNotFound(r, c) == Err("ColumnNotFound", <<r, c>>)
RowNotFound(r) == Err("RowNotFound", <<r>>)

\* value bound to the parameter of Body: let x = value in Body(x)
Let(value, Body(_)) == Body(value)

\* first index of s whose element satisfies P, 0 when there is none
\* (Iterator::position / find, shifted to the 1-based indices of Sequences)
FirstIndex(s, P(_)) ==
    IF \E i \in 1..Len(s) : P(s[i])
    THEN CHOOSE i \in 1..Len(s) : P(s[i]) /\ \A j \in 1..(i - 1) : ~P(s[j])
    ELSE 0

RECURSIVE SumSeq(_)
SumSeq(s) == IF s = <<>> THEN 0 ELSE Head(s) + SumSeq(Tail(s))

RECURSIVE Concat(_)
Concat(ss) == IF ss = <<>> THEN <<>> ELSE Head(ss) \o Concat(Tail(ss))

\* ------------------------------------------------------------- ProductItem
ProductItem_new(product_id, row, column, zone, expiry_date) ==
    [id |-> product_id, row |-> row, column |-> column, zone |-> zone,
     expiry_date |-> expiry_date]

\* a copy that keeps the position the original recorded
copy_keeping_position(item, row, column, zone) ==
    [id |-> item.id, row |-> item.row, column |-> item.column, zone |-> item.zone,
     expiry_date |-> item.expiry_date]

copy_at_zone(item, row, column, zone) ==
    [id |-> item.id, row |-> row, column |-> column, zone |-> zone,
     expiry_date |-> item.expiry_date]

\* -------------------------------------------------------------------- Zone
Zone_new(zone_number, column_number, row_number, item) ==
    [zone_number |-> zone_number, column_number |-> column_number,
     row_number |-> row_number, item |-> item]

Zone_is_empty(zone) == is_none(zone.item)

Zone_add(zone, item) ==
    IF is_some(zone.item)
    THEN [v |-> zone,
          res |-> ZoneOccupied(zone.row_number, zone.column_number, zone.zone_number)]
    ELSE [v |-> [zone EXCEPT !.item = Some(item)], res |-> Ok]

Zone_remove(zone) ==
    IF is_none(zone.item)
    THEN [v |-> zone,
          res |-> ZoneEmpty(zone.row_number, zone.column_number, zone.zone_number)]
    ELSE [v |-> [zone EXCEPT !.item = None], res |-> Ok]

\* ------------------------------------------------------------------ Column
Column_new(column_number, row_number) ==
    [column_number |-> column_number, row_number |-> row_number,
     capacity |-> 0, zones |-> <<>>, available_space |-> 0]

Column_add_zone(col, zone) ==
    [col EXCEPT !.zones = Append(@, zone),
                !.available_space = @ + 1,
                !.capacity = @ + 1]

\* Vec::remove(index) at the 1-based index i
RemoveAt(s, i) == SubSeq(s, 1, i - 1) \o SubSeq(s, i + 1, Len(s))

Column_remove_zone(col, zone_number) ==
    Let(FirstIndex(col.zones, LAMBDA z : z.zone_number = zone_number), LAMBDA zi :
        IF zi = 0
        THEN [v |-> col,
              res |-> ZoneNotFound(col.row_number, col.column_number, zone_number)]
        ELSE Let([col EXCEPT !.zones = RemoveAt(@, zi)], LAMBDA c1 :
             IF SubPanics(col.available_space, 1) THEN [v |-> c1, res |-> Panic]
             ELSE Let([c1 EXCEPT !.available_space = @ - 1], LAMBDA c2 :
                  IF SubPanics(col.capacity, 1) THEN [v |-> c2, res |-> Panic]
                  ELSE [v |-> [c2 EXCEPT !.capacity = @ - 1], res |-> Ok])))

RECURSIVE Column_initialize_zones(_, _, _)
Column_initialize_zones(col, i, zone_count) ==
    IF i > zone_count THEN col
    ELSE Column_initialize_zones(
             Column_add_zone(col, Zone_new(i, col.column_number, col.row_number, None)),
             i + 1, zone_count)

\* index (1-based, 0 = None) of the zone numbered zone_number
Column_zone(col, zone_number) ==
    FirstIndex(col.zones, LAMBDA zone : zone.zone_number = zone_number)

Column_flat_map(col) ==
    [i \in 1..Len(col.zones) |-> IF Zone_is_empty(col.zones[i]) THEN 0 ELSE 1]

\* the counter update that follows a successful call on a child: the parent
\* p with its child replaced, and available_space moved by delta (-1 / +1)
count_after(p, p1, a, delta) ==
    IF a.res = Panic THEN [v |-> p1, res |-> Panic]
    ELSE IF a.res # Ok THEN [v |-> p, res |-> a.res]
    ELSE IF (delta < 0 /\ SubPanics(p.available_space, 1))
            \/ (delta > 0 /\ AddPanics(p.available_space, 1))
         THEN [v |-> p1, res |-> Panic]
         ELSE [v |-> [p1 EXCEPT !.available_space = @ + delta], res |-> Ok]

Column_add_item(col, zone_number, item) ==
    Let(Column_zone(col, zone_number), LAMBDA zi :
        IF zi = 0
        THEN [v |-> col,
              res |-> ZoneNotFound(col.row_number, col.column_number, zone_number)]
        ELSE Let(Zone_add(col.zones[zi], item), LAMBDA a :
                 count_after(col, [col EXCEPT !.zones[zi] = a.v], a, -1)))

Column_remove_item(col, zone_number) ==
    Let(Column_zone(col, zone_number), LAMBDA zi :
        IF zi = 0
        THEN [v |-> col,
              res |-> ZoneNotFound(col.row_number, col.column_number, zone_number)]
        ELSE Let(Zone_remove(col.zones[zi]), LAMBDA a :
                 count_after(col, [col EXCEPT !.zones[zi] = a.v], a, 1)))

Column_get_item(col, zone_number) ==
    Let(Column_zone(col, zone_number), LAMBDA zi :
        IF zi = 0 THEN None ELSE col.zones[zi].item)

Zone_holds(zone, product_id) ==
    is_some(zone.item) /\ zone.item[1].id = product_id

Column_contains_product(col, product_id) ==
    \E i \in 1..Len(col.zones) : Zone_holds(col.zones[i], product_id)

\* Option of the 0-based index (Iterator::position) of the first zone
\* holding product_id
Column_find_item(col, product_id) ==
    Let(FirstIndex(col.zones, LAMBDA z : Zone_holds(z, product_id)), LAMBDA zi :
        IF zi = 0 THEN None ELSE Some(zi - 1))

\* 0-based indices (enumerate) of the zones holding product_id, in order
Column_find_all_item_occurences(col, product_id) ==
    Let(SelectSeq([i \in 1..Len(col.zones) |-> i],
                  LAMBDA i : Zone_holds(col.zones[i], product_id)),
        LAMBDA sel : [k \in 1..Len(sel) |-> sel[k] - 1])

\* --------------------------------------------------------------------- Row
Row_new(row_number) ==
    [row_number |-> row_number, column_count |-> 0, capacity |-> 0,
     available_space |-> 0, columns |-> <<>>]

Row_add_column(row, column) ==
    [row EXCEPT !.column_count = @ + 1,
                !.capacity = @ + column.capacity,
                !.available_space = @ + column.available_space,
                !.columns = Append(@, column)]

\* the counters are reduced by those of self.columns[column] read after the
\* removal, which is the column that followed the removed one; the read is
\* out of bounds when the removed column was the last
Row_remove_column(row, column_number) ==
    Let(FirstIndex(row.columns, LAMBDA col : col.column_number = column_number),
        LAMBDA ci :
        IF ci = 0
        THEN [v |-> row, res |-> ColumnNotFound(row.row_number, column_number)]
        ELSE Let([row EXCEPT !.columns = RemoveAt(@, ci)], LAMBDA r1 :
             IF SubPanics(row.column_count, 1) THEN [v |-> r1, res |-> Panic]
             ELSE Let([r1 EXCEPT !.column_count = @ - 1], LAMBDA r2 :
                  IF ci > Len(r2.columns) THEN [v |-> r2, res |-> Panic]
                  ELSE IF SubPanics(r2.capacity, r2.columns[ci].capacity)
                  THEN [v |-> r2, res |-> Panic]
                  ELSE Let([r2 EXCEPT !.capacity = @ - r2.columns[ci].capacity],
                           LAMBDA r3 :
                       IF SubPanics(r3.available_space, r3.columns[ci].available_space)
                       THEN [v |-> r3, res |-> Panic]
                       ELSE [v |-> [r3 EXCEPT !.available_space =
                                        @ - r3.columns[ci].available_space],
                             res |-> Ok]))))

RECURSIVE Row_initialize_columns(_, _, _, _)
Row_initialize_columns(row, i, column_count, zone_per_col) ==
    IF i > column_count THEN row
    ELSE Row_initialize_columns(
             Row_add_column(row,
                 Column_initialize_zones(Column_new(i, row.row_number), 1, zone_per_col)),
             i + 1, column_count, zone_per_col)

\* index (1-based, 0 = None) of the column numbered column_number
Row_column(row, column_number) ==
    FirstIndex(row.columns, LAMBDA col : col.column_number = column_number)

Row_flat_map(row) ==
    Concat([i \in 1..Len(row.columns) |-> Column_flat_map(row.columns[i])])

Row_contains_product(row, product_id) ==
    \E i \in 1..Len(row.columns) : Column_contains_product(row.columns[i], product_id)

Row_add_item(row, column_number, zone_number, item) ==
    Let(Row_column(row, column_number), LAMBDA ci :
        IF ci = 0
        THEN [v |-> row, res |-> ColumnNotFound(row.row_number, column_number)]
        ELSE Let(Column_add_item(row.columns[ci], zone_number, item), LAMBDA a :
                 count_after(row, [row EXCEPT !.columns[ci] = a.v], a, -1)))

Row_remove_item(row, column_number, zone_number) ==
    Let(Row_column(row, column_number), LAMBDA ci :
        IF ci = 0
        THEN [v |-> row, res |-> ColumnNotFound(row.row_number, column_number)]
        ELSE Let(Column_remove_item(row.columns[ci], zone_number), LAMBDA a :
                 count_after(row, [row EXCEPT !.columns[ci] = a.v], a, 1)))

Row_item(row, column_number, zone_number) ==
    Let(Row_column(row, column_number), LAMBDA ci :
        IF ci = 0 THEN None ELSE Column_get_item(row.columns[ci], zone_number))

\* Option of (column_number, zone index) in the first column that contains
\* product_id
Row_find_item(row, product_id) ==
    Let(FirstIndex(row.columns, LAMBDA col : Column_contains_product(col, product_id)),
        LAMBDA ci :
        IF ci = 0 THEN None
        ELSE Let(Column_find_item(row.columns[ci], product_id), LAMBDA zone_index :
                 IF is_none(zone_index) THEN None
                 ELSE Some(<<row.columns[ci].column_number, zone_index[1]>>)))

\* pairs (col_index, zone_index), both 0-based (enumerate), in scan order
Row_find_all_item_occurences(row, product_id) ==
    Concat([ci \in 1..Len(row.columns) |->
        Let(Column_find_all_item_occurences(row.columns[ci], product_id),
            LAMBDA zs : [k \in 1..Len(zs) |-> <<ci - 1, zs[k]>>])])

\* --------------------------------------------------------------- Warehouse
Warehouse_new ==
    [row_count |-> 0, column_count |-> 0, capacity |-> 0, available_space |-> 0,
     rows |-> <<>>]

add_row(w, row) ==
    [w EXCEPT !.row_count = @ + 1,
              !.capacity = @ + row.capacity,
              !.available_space = @ + row.available_space,
              !.column_count = @ + Len(row.columns),
              !.rows = Append(@, row)]

remove_row(w, row_number) ==
    Let(FirstIndex(w.rows, LAMBDA r : r.row_number = row_number), LAMBDA row_index :
        IF row_index = 0 THEN [v |-> w, res |-> RowNotFound(row_number)]
        ELSE IF SubPanics(w.capacity, w.rows[row_index].capacity)
        THEN [v |-> w, res |-> Panic]
        ELSE Let([w EXCEPT !.capacity = @ - w.rows[row_index].capacity], LAMBDA w1 :
             IF SubPanics(w1.available_space, w.rows[row_index].available_space)
             THEN [v |-> w1, res |-> Panic]
             ELSE Let([w1 EXCEPT !.available_space = @ - w.rows[row_index].available_space,
                                 !.rows = RemoveAt(@, row_index)],
                      LAMBDA w2 :
                  IF SubPanics(w2.row_count, 1) THEN [v |-> w2, res |-> Panic]
                  ELSE [v |-> [w2 EXCEPT !.row_count = @ - 1], res |-> Ok])))

RECURSIVE initialize_rows(_, _, _, _, _)
initialize_rows(w, i, row_count, col_per_row, zone_per_col) ==
    IF i > row_count THEN w
    ELSE initialize_rows(
             add_row(w, Row_initialize_columns(Row_new(i), 1, col_per_row, zone_per_col)),
             i + 1, row_count, col_per_row, zone_per_col)

\* index (1-based, 0 = None) of the row numbered row_number
row(w, row_number) ==
    FirstIndex(w.rows, LAMBDA r : r.row_number = row_number)

\* Option of the path <<row index, column index, zone index>> (1-based) to
\* the zone numbered (row_number, column_number, zone_number)
zone_mut(w, row_number, column_number, zone_number) ==
    Let(row(w, row_number), LAMBDA ri :
        IF ri = 0 THEN None
        ELSE Let(Row_column(w.rows[ri], column_number), LAMBDA ci :
            IF ci = 0 THEN None
            ELSE Let(Column_zone(w.rows[ri].columns[ci], zone_number), LAMBDA zi :
                IF zi = 0 THEN None ELSE Some(<<ri, ci, zi>>))))

zone_of(w, path) == w.rows[path[1]].columns[path[2]].zones[path[3]]

\* Option of the zone numbered (row_number, column_number, zone_number)
zone(w, row_number, column_number, zone_number) ==
    Let(zone_mut(w, row_number, column_number, zone_number), LAMBDA path :
        IF is_none(path) THEN None ELSE Some(zone_of(w, path[1])))

flat_map(w) ==
    Concat([i \in 1..Len(w.rows) |-> Row_flat_map(w.rows[i])])

\* a walk that answers the offset within the row as the zone
RECURSIVE column_walk_row_offset(_, _, _, _, _)
column_walk_row_offset(r, row_index, column_index, relative_position, column_cumulative_zones) ==
    IF column_index >= Len(r.columns) THEN None
    ELSE IF relative_position
                < column_cumulative_zones + r.columns[column_index + 1].capacity
         THEN Some(<<row_index + 1, column_index + 1, relative_position + 1>>)
         ELSE column_walk_row_offset(r, row_index, column_index + 1, relative_position,
                  column_cumulative_zones + r.columns[column_index + 1].capacity)

RECURSIVE column_walk(_, _, _, _, _)
column_walk(r, row_index, column_index, relative_position, column_cumulative_zones) ==
    IF column_index >= Len(r.columns) THEN None
    ELSE IF relative_position
                < column_cumulative_zones + r.columns[column_index + 1].capacity
         THEN Some(<<row_index + 1, column_index + 1,
                     relative_position - column_cumulative_zones + 1>>)
         ELSE column_walk(r, row_index, column_index + 1, relative_position,
                  column_cumulative_zones + r.columns[column_index + 1].capacity)

RECURSIVE row_walk(_, _, _, _)
row_walk(w, row_index, position, cumulative_capacity) ==
    IF row_index >= Len(w.rows) THEN None
    ELSE Let(SumSeq([i \in 1..Len(w.rows[row_index + 1].columns) |->
                        w.rows[row_index + 1].columns[i].capacity]),
             LAMBDA row_zone_count :
         IF position < cumulative_capacity + row_zone_count
         THEN column_walk(w.rows[row_index + 1], row_index, 0,
                          position - cumulative_capacity, 0)
         ELSE row_walk(w, row_index + 1, position,
                       cumulative_capacity + row_zone_count))

flat_map_position_to_zone(w, position) == row_walk(w, 0, position, 0)

contains_product(w, product_id) ==
    \E i \in 1..Len(w.rows) : Row_contains_product(w.rows[i], product_id)

add_item(w, row_number, column_number, zone_number, item) ==
    Let(row(w, row_number), LAMBDA ri :
        IF ri = 0 THEN [v |-> w, res |-> RowNotFound(row_number)]
        ELSE Let(Row_add_item(w.rows[ri], column_number, zone_number, item), LAMBDA a :
                 count_after(w, [w EXCEPT !.rows[ri] = a.v], a, -1)))

remove_item(w, row_number, column_number, zone_number) ==
    Let(row(w, row_number), LAMBDA ri :
        IF ri = 0 THEN [v |-> w, res |-> RowNotFound(row_number)]
        ELSE Let(Row_remove_item(w.rows[ri], column_number, zone_number), LAMBDA a :
                 count_after(w, [w EXCEPT !.rows[ri] = a.v], a, 1)))

get_item(w, row_number, column_number, zone_number) ==
    Let(row(w, row_number), LAMBDA ri :
        IF ri = 0 THEN None ELSE Row_item(w.rows[ri], column_number, zone_number))

\* Option of (row_number, column_number, zone index) from the first row in
\* which Row::find_item answers
find_item(w, product_id) ==
    Let(FirstIndex(w.rows, LAMBDA r : is_some(Row_find_item(r, product_id))), LAMBDA ri :
        IF ri = 0 THEN None
        ELSE Let(Row_find_item(w.rows[ri], product_id), LAMBDA cz :
                 Some(<<w.rows[ri].row_number, cz[1][1], cz[1][2]>>)))

\* triples (row_number, col_index, zone_index): the row by its number, the
\* column and the zone by their 0-based index
find_all_item_occurences(w, product_id) ==
    Concat([ri \in 1..Len(w.rows) |->
        Let(Row_find_all_item_occurences(w.rows[ri], product_id),
            LAMBDA cz : [k \in 1..Len(cz) |->
                            <<w.rows[ri].row_number, cz[k][1], cz[k][2]>>])])

\* a test that leaves out the comparison of the columns
contiguous_list_any_column(item_list) ==
    IF item_list = <<>> THEN FALSE
    ELSE IF Len(item_list) = 1 THEN TRUE
    ELSE /\ \A i \in 2..Len(item_list) : item_list[i][1] = item_list[i - 1][1]
         /\ \A i \in 2..Len(item_list) : item_list[i][3] = item_list[i - 1][3] + 1

contiguous_list(item_list) ==
    IF item_list = <<>> THEN FALSE
    ELSE IF Len(item_list) = 1 THEN TRUE
    ELSE /\ \A i \in 2..Len(item_list) : item_list[i][1] = item_list[i - 1][1]
         /\ \A i \in 2..Len(item_list) : item_list[i][2] = item_list[i - 1][2]
         /\ \A i \in 2..Len(item_list) : item_list[i][3] = item_list[i - 1][3] + 1

is_product_stored_contiguously(w, product_id) ==
    contiguous_list(find_all_item_occurences(w, product_id))

\* a search that answers the last run of required_space zeros, not the first
find_zeros_last(fm, required_space) ==
    Let({p \in 0..(Len(fm) - required_space) : \A k \in 1..required_space : fm[p + k] = 0},
        LAMBDA Cand : IF Cand = {} THEN None
                      ELSE Some(CHOOSE p \in Cand : \A q \in Cand : p >= q))

\* str::find of "0".repeat(required_space): Option of the 0-based offset of
\* the first run of required_space zeros (offset 0 for the empty pattern)
find_zeros(fm, required_space) ==
    Let({p \in 0..(Len(fm) - required_space) : \A k \in 1..required_space : fm[p + k] = 0},
        LAMBDA Cand : IF Cand = {} THEN None
                      ELSE Some(CHOOSE p \in Cand : \A q \in Cand : p <= q))

\* res: Ok with pos = Some (row, column, zone), or the error
position_result(position) ==
    IF is_some(position) THEN [pos |-> position, res |-> Ok]
    ELSE [pos |-> None, res |-> NoContiguousSpace]

\* find_contiguous_space with the search run before the capacity check
find_contiguous_space_search_first(w, required_space) ==
    Let(find_zeros(flat_map(w), required_space), LAMBDA position :
        IF is_none(position) THEN [pos |-> None, res |-> NoContiguousSpace]
        ELSE IF ULt(w.available_space, required_space)
        THEN [pos |-> None, res |-> InsufficientSpace]
        ELSE position_result(flat_map_position_to_zone(w, position[1])))

find_contiguous_space(w, required_space) ==
    IF ULt(w.available_space, required_space)
    THEN [pos |-> None, res |-> InsufficientSpace]
    ELSE Let(find_zeros(flat_map(w), required_space), LAMBDA position :
             IF is_some(position)
             THEN position_result(flat_map_position_to_zone(w, position[1]))
             ELSE [pos |-> None, res |-> NoContiguousSpace])

\* the three hand-written cursors of add_items_by_qty and
\* move_items_to_contiguous_space; each is None when its slice index is out
\* of bounds (the thread panics), else Some of the next (r, c, z)
InBounds(w, row_index, column_index) ==
    /\ 0 <= row_index /\ row_index < Len(w.rows)
    /\ 0 <= column_index /\ column_index < Len(w.rows[row_index + 1].columns)

\* a cursor that goes back to column 1 of the same row after the last column
advance_case_a_same_row(w, r, c, z) ==
    IF ~InBounds(w, r - 1, c - 1) THEN None
    ELSE IF z + 1 = Len(w.rows[r].columns[c].zones) + 1
         THEN IF c + 1 = Len(w.rows[r].columns) + 1
              THEN Some(<<r, 1, 1>>)
              ELSE Some(<<r, c + 1, 1>>)
         ELSE Some(<<r, c, z + 1>>)

\* lines 899-907: z += 1, carry on rows[r-1].columns[c-1]
advance_case_a(w, r, c, z) ==
    IF ~InBounds(w, r - 1, c - 1) THEN None
    ELSE IF z + 1 = Len(w.rows[r].columns[c].zones) + 1
         THEN IF c + 1 = Len(w.rows[r].columns) + 1
              THEN Some(<<r + 1, 1, 1>>)
              ELSE Some(<<r, c + 1, 1>>)
         ELSE Some(<<r, c, z + 1>>)

\* lines 938-946 and 984-992: z += 1, carry on rows[r].columns[c]
advance_case_b(w, r, c, z) ==
    IF ~InBounds(w, r, c) THEN None
    ELSE IF z + 1 = Len(w.rows[r + 1].columns[c + 1].zones) + 1
         THEN IF c + 1 = Len(w.rows[r + 1].columns) + 1
              THEN Some(<<r + 1, 1, 1>>)
              ELSE Some(<<r, c + 1, 1>>)
         ELSE Some(<<r, c, z + 1>>)

\* lines 1150-1159: carry to 0 when z + 1 is the length of rows[r].columns[c]
advance_move(w, r, c, z) ==
    IF ~InBounds(w, r, c) THEN None
    ELSE IF z + 1 = Len(w.rows[r + 1].columns[c + 1].zones)
         THEN IF c + 1 = Len(w.rows[r + 1].columns)
              THEN Some(<<r + 1, 0, 0>>)
              ELSE Some(<<r, c + 1, 0>>)
         ELSE Some(<<r, c, z + 1>>)

\* let last_position = (r - 1, c - 1, z - 1)
last_position(r, c, z) ==
    IF SubPanics(r, 1) \/ SubPanics(c, 1) \/ SubPanics(z, 1) THEN Panic ELSE Ok

RECURSIVE case_a_loop(_, _, _, _, _, _, _, _)
case_a_loop(w, r, c, z, qty_added, qty, product_id, expiry_date) ==
    IF ~(qty_added < qty) THEN [v |-> w, res |-> last_position(r, c, z)]
    ELSE Let(add_item(w, r, c, z, ProductItem_new(product_id, r, c, z, expiry_date)),
             LAMBDA a :
         IF a.res # Ok THEN a
         ELSE IF SubPanics(a.v.available_space, 1) THEN [v |-> a.v, res |-> Panic]
         ELSE Let([a.v EXCEPT !.available_space = @ - 1], LAMBDA w1 :
              Let(advance_case_a(w1, r, c, z), LAMBDA n :
                  IF is_none(n) THEN [v |-> w1, res |-> Panic]
                  ELSE case_a_loop(w1, n[1][1], n[1][2], n[1][3], qty_added + 1, qty,
                                   product_id, expiry_date))))

\* if zone.is_empty() { zone.add(new_item); qty_added += 1;
\* self.available_space -= 1 } on the zone at path
place_if_empty(w, path, new_item, qty_added) ==
    IF ~Zone_is_empty(zone_of(w, path))
    THEN [v |-> w, res |-> Ok, qty_added |-> qty_added]
    ELSE Let([w EXCEPT !.rows[path[1]].columns[path[2]].zones[path[3]] =
                           Zone_add(@, new_item).v],
             LAMBDA w0 :
         IF SubPanics(w.available_space, 1)
         THEN [v |-> w0, res |-> Panic, qty_added |-> qty_added + 1]
         ELSE [v |-> [w0 EXCEPT !.available_space = @ - 1], res |-> Ok,
               qty_added |-> qty_added + 1])

RECURSIVE case_b_loop(_, _, _, _, _, _, _, _)
case_b_loop(w, r, c, z, qty_added, qty, product_id, expiry_date) ==
    IF ~(qty_added < qty) THEN [v |-> w, res |-> last_position(r, c, z)]
    ELSE Let(zone_mut(w, r, c, z), LAMBDA path :
         IF is_none(path) THEN [v |-> w, res |-> Hang]
         ELSE Let(place_if_empty(w, path[1],
                      ProductItem_new(product_id, r, c, z, expiry_date), qty_added),
                  LAMBDA s :
              IF s.res # Ok THEN [v |-> s.v, res |-> s.res]
              ELSE Let(advance_case_b(s.v, r, c, z), LAMBDA n :
                   IF is_none(n) THEN [v |-> s.v, res |-> Panic]
                   ELSE case_b_loop(s.v, n[1][1], n[1][2], n[1][3], s.qty_added, qty,
                                    product_id, expiry_date))))

RECURSIVE case_c_loop(_, _, _, _, _, _, _, _)
case_c_loop(w, r, c, z, qty_added, qty, product_id, expiry_date) ==
    IF ~(qty_added < qty) THEN [v |-> w, res |-> last_position(r, c, z)]
    ELSE Let(zone_mut(w, r, c, z), LAMBDA path :
         IF is_none(path) THEN [v |-> w, res |-> Hang]
         ELSE Let(place_if_empty(w, path[1],
                      ProductItem_new(product_id, r, c, z, expiry_date), qty_added),
                  LAMBDA s :
              IF s.res # Ok THEN [v |-> s.v, res |-> s.res]
              ELSE Let(advance_case_b(s.v, r, c, z), LAMBDA n :
                   IF is_none(n) THEN [v |-> s.v, res |-> Panic]
                   ELSE case_c_loop(s.v, n[1][1], n[1][2], n[1][3], s.qty_added, qty,
                                    product_id, expiry_date))))

\* a move that empties the source before it fills the destination
move_item_remove_first(w, current_zone, new_zone) ==
    Let(zone(w, current_zone[1], current_zone[2], current_zone[3]), LAMBDA zo :
        IF is_none(zo)
        THEN [v |-> w,
              res |-> ZoneNotFound(current_zone[1], current_zone[2], current_zone[3])]
        ELSE IF is_none(zo[1].item)
        THEN [v |-> w,
              res |-> ZoneEmpty(current_zone[1], current_zone[2], current_zone[3])]
        ELSE Let(remove_item(w, current_zone[1], current_zone[2], current_zone[3]),
                 LAMBDA a :
             IF a.res # Ok THEN a
             ELSE add_item(a.v, new_zone[1], new_zone[2], new_zone[3],
                      copy_at_zone(zo[1].item[1], new_zone[1], new_zone[2], new_zone[3]))))

move_item(w, current_zone, new_zone) ==
    Let(zone(w, current_zone[1], current_zone[2], current_zone[3]), LAMBDA zo :
        IF is_none(zo)
        THEN [v |-> w,
              res |-> ZoneNotFound(current_zone[1], current_zone[2], current_zone[3])]
        ELSE IF is_none(zo[1].item)
        THEN [v |-> w,
              res |-> ZoneEmpty(current_zone[1], current_zone[2], current_zone[3])]
        ELSE Let(add_item(w, new_zone[1], new_zone[2], new_zone[3],
                     copy_at_zone(zo[1].item[1], new_zone[1], new_zone[2], new_zone[3])),
                 LAMBDA a :
             IF a.res # Ok THEN a
             ELSE remove_item(a.v, current_zone[1], current_zone[2], current_zone[3])))

\* the least date of a non-empty list of <<position, date>> pairs
min_date(list) ==
    CHOOSE d \in {list[i][2] : i \in 1..Len(list)} : \A i \in 1..Len(list) : d <= list[i][2]

\* stable sort_by on the date of <<position, date>> pairs
RECURSIVE sort_by_date(_)
sort_by_date(list) ==
    IF list = <<>> THEN <<>>
    ELSE Let(min_date(list), LAMBDA m :
             SelectSeq(list, LAMBDA e : e[2] = m)
             \o sort_by_date(SelectSeq(list, LAMBDA e : e[2] # m)))

\* filter_map: the occupants with a date at the given positions, as read by
\* get_item(row, col, zone)
items_with_dates(w, items) ==
    Let(SelectSeq([k \in 1..Len(items) |->
                      <<items[k], get_item(w, items[k][1], items[k][2], items[k][3])>>],
                  LAMBDA e : is_some(e[2]) /\ is_some(e[2][1].expiry_date)),
        LAMBDA found : [k \in 1..Len(found) |->
                           <<found[k][1], found[k][2][1].expiry_date[1]>>])

\* NaiveDate::to_string, the key of the grouping
date_to_string(date) == ToString(date)

\* Vec<position> per key, in the order of the sorted list
group_sorted(list_with_items) ==
    [key \in {date_to_string(list_with_items[i][2]) : i \in 1..Len(list_with_items)} |->
        Let(SelectSeq(list_with_items, LAMBDA e : date_to_string(e[2]) = key),
            LAMBDA of_key : [k \in 1..Len(of_key) |-> of_key[k][1]])]

\* HashMap<String, Vec<position>>: a function from the keys to the positions
group_items_by_expiration(w, items) ==
    group_sorted(sort_by_date(items_with_dates(w, items)))

\* the orders in which a HashMap with the given keys may be iterated
iteration_orders(keys) ==
    {o \in [1..Cardinality(keys) -> keys] :
        \A i, j \in 1..Cardinality(keys) : o[i] = o[j] => i = j}

RECURSIVE move_loop(_, _, _, _, _, _)
move_loop(w, items, i, r, c, z) ==
    IF i > Len(items) THEN [v |-> w, res |-> last_position(r, c, z)]
    ELSE Let(move_item(w, items[i], <<r, c, z>>), LAMBDA m :
         IF m.res # Ok THEN m
         ELSE Let(advance_move(m.v, r, c, z), LAMBDA n :
              IF is_none(n) THEN [v |-> m.v, res |-> Panic]
              ELSE move_loop(m.v, items, i + 1, n[1][1], n[1][2], n[1][3])))

\* order: the order in which the HashMap yields its keys
move_items_to_contiguous_space(w, grouped_items, order) ==
    Let(Concat([k \in 1..Len(order) |-> grouped_items[order[k]]]), LAMBDA items :
    Let(find_contiguous_space(w, Len(items)), LAMBDA f :
        IF f.res # Ok THEN [v |-> w, res |-> f.res]
        ELSE move_loop(w, items, 1, f.pos[1][1], f.pos[1][2], f.pos[1][3])))

\* which of the three branches add_items_by_qty takes
add_case(w, product_id, qty) ==
    IF ULt(w.available_space, qty) THEN "none"
    ELSE IF ~contains_product(w, product_id) THEN "A"
    ELSE IF is_product_stored_contiguously(w, product_id) THEN "B"
    ELSE "C"

add_case_a(w, product_id, qty, expiry_date) ==
    Let(find_contiguous_space(w, qty), LAMBDA f :
        IF f.res # Ok THEN [v |-> w, res |-> f.res]
        ELSE case_a_loop(w, f.pos[1][1], f.pos[1][2], f.pos[1][3], 0, qty,
                         product_id, expiry_date))

add_case_b(w, product_id, qty, expiry_date) ==
    Let(find_all_item_occurences(w, product_id), LAMBDA items :
        case_b_loop(w, items[Len(items)][1], items[Len(items)][2], items[Len(items)][3],
                    0, qty, product_id, expiry_date))

add_case_c(w, product_id, qty, expiry_date, order) ==
    Let(find_all_item_occurences(w, product_id), LAMBDA existing_items :
    Let(find_contiguous_space(w, Len(existing_items) + qty), LAMBDA f :
        IF f.res # Ok THEN [v |-> w, res |-> f.res]
        ELSE Let(move_items_to_contiguous_space(
                     w, group_items_by_expiration(w, existing_items), order),
                 LAMBDA m :
             IF m.res # Ok THEN m
             ELSE case_c_loop(m.v, f.pos[1][1], f.pos[1][2], f.pos[1][3], 0, qty,
                              product_id, expiry_date))))

add_items_by_qty(w, product_id, qty, expiry_date, order) ==
    IF ULt(w.available_space, qty) THEN [v |-> w, res |-> InsufficientSpace]
    ELSE IF ~contains_product(w, product_id)
    THEN add_case_a(w, product_id, qty, expiry_date)
    ELSE IF is_product_stored_contiguously(w, product_id)
    THEN add_case_b(w, product_id, qty, expiry_date)
    ELSE add_case_c(w, product_id, qty, expiry_date, order)

\* the iteration orders add_items_by_qty may meet (one, empty, outside Case C)
add_orders(w, product_id, qty) ==
    IF add_case(w, product_id, qty) = "C"
    THEN iteration_orders(DOMAIN group_items_by_expiration(
             w, find_all_item_occurences(w, product_id)))
    ELSE {<<>>}

RECURSIVE remove_each(_, _, _)
remove_each(w, items, i) ==
    IF i > Len(items) THEN [v |-> w, res |-> Ok]
    ELSE Let(remove_item(w, items[i][1], items[i][2], items[i][3]), LAMBDA a :
             IF a.res # Ok THEN a ELSE remove_each(a.v, items, i + 1))

remove_all_items(w, product_id) ==
    Let(find_all_item_occurences(w, product_id), LAMBDA items :
        IF items # <<>> THEN remove_each(w, items, 1)
        ELSE [v |-> w, res |-> NoProductFound])

remove_item_by_qty(w, product_id, qty) ==
    Let(sort_by_date(items_with_dates(w, find_all_item_occurences(w, product_id))),
        LAMBDA sorted :
        IF Len(sorted) >= qty
        THEN remove_each(w, [k \in 1..qty |-> sorted[k][1]], 1)
        ELSE remove_all_items(w, product_id))

\* ----------------------------------------------------------------- catalog
\* ProductList.products: HashMap<u32, Product> as a function from the ids
ProductList_new == <<>>

Product_new(id, name, price, quantity) ==
    [id |-> id, name |-> name, price |-> price, quantity |-> quantity]

ProductNotFound == Err("ProductNotFound", <<>>)
WarehouseError(e) == IF e.kind \in {"Panic", "Hang"} THEN e ELSE Err("WarehouseError", <<e>>)

ProductList_add(pl, product) ==
    IF product.id \in DOMAIN pl THEN [v |-> pl, res |-> Err("IDExists", <<>>)]
    ELSE IF \E i \in DOMAIN pl : pl[i].name = product.name
    THEN [v |-> pl, res |-> Err("NameExists", <<>>)]
    ELSE [v |-> [i \in DOMAIN pl \cup {product.id} |->
                    IF i = product.id THEN product ELSE pl[i]],
          res |-> Ok]

\* Storage::new_product: the id is the number of products plus 1
new_product(pl, name, price) ==
    ProductList_add(pl, Product_new(Cardinality(DOMAIN pl) + 1, name, price, 0))

\* Option of the id of the product named name (names are unique)
find_product_id(pl, name) ==
    IF \E i \in DOMAIN pl : pl[i].name = name
    THEN Some(CHOOSE i \in DOMAIN pl : pl[i].name = name)
    ELSE None

\* product.quantity += quantity on the product id
quantity_added(pl, id, quantity) ==
    IF AddPanics(pl[id].quantity, quantity) THEN [pl |-> pl, res |-> Panic]
    ELSE [pl |-> [pl EXCEPT ![id].quantity = @ + quantity], res |-> Ok]

\* product.quantity -= quantity on the product id
quantity_removed(pl, id, quantity) ==
    IF SubPanics(pl[id].quantity, quantity) THEN [pl |-> pl, res |-> Panic]
    ELSE [pl |-> [pl EXCEPT ![id].quantity = @ - quantity], res |-> Ok]

\* the Storage operations answer the catalog pl, the grid w and the result
restock_product(pl, w, id, quantity, expiration_date, order) ==
    IF id \notin DOMAIN pl THEN [pl |-> pl, w |-> w, res |-> ProductNotFound]
    ELSE Let(add_items_by_qty(w, id, quantity, expiration_date, order), LAMBDA a :
         IF a.res # Ok THEN [pl |-> pl, w |-> a.v, res |-> WarehouseError(a.res)]
         ELSE Let(quantity_added(pl, id, quantity), LAMBDA q :
                  [pl |-> q.pl, w |-> a.v, res |-> q.res]))

\* restock_product has added the quantity already when this adds it again
restock_by_name(pl, w, name, quantity, expiration_date, order) ==
    Let(find_product_id(pl, name), LAMBDA id :
        IF is_none(id) THEN [pl |-> pl, w |-> w, res |-> ProductNotFound]
        ELSE Let(restock_product(pl, w, id[1], quantity, expiration_date, order),
                 LAMBDA r :
             IF r.res # Ok THEN r
             ELSE Let(quantity_added(r.pl, id[1], quantity), LAMBDA q :
                      [pl |-> q.pl, w |-> r.w, res |-> q.res])))

remove_stock(pl, w, id, quantity) ==
    IF id \notin DOMAIN pl THEN [pl |-> pl, w |-> w, res |-> ProductNotFound]
    ELSE Let(remove_item_by_qty(w, id, quantity), LAMBDA a :
         IF a.res # Ok THEN [pl |-> pl, w |-> a.v, res |-> WarehouseError(a.res)]
         ELSE Let(quantity_removed(pl, id, quantity), LAMBDA q :
                  [pl |-> q.pl, w |-> a.v, res |-> q.res]))

empty_stock(pl, w, id) ==
    IF id \notin DOMAIN pl THEN [pl |-> pl, w |-> w, res |-> ProductNotFound]
    ELSE Let(remove_all_items(w, id), LAMBDA a :
         IF a.res # Ok THEN [pl |-> pl, w |-> a.v, res |-> WarehouseError(a.res)]
         ELSE [pl |-> [pl EXCEPT ![id].quantity = 0], w |-> a.v, res |-> Ok])

\* ------------------------------------------------------------ save and load
\* serde_json values: an object is a record of its members, an array a
\* sequence, null / a present value an Option; a NaiveDate is its string and
\* a u32 map key its decimal string
\* #[serde(skip_serializing_if = "Option::is_none")] on expiry_date
ProductItem_to_json(item) ==
    IF is_none(item.expiry_date)
    THEN [id |-> item.id, row |-> item.row, column |-> item.column, zone |-> item.zone]
    ELSE [id |-> item.id, row |-> item.row, column |-> item.column, zone |-> item.zone,
          expiry_date |-> date_to_string(item.expiry_date[1])]

\* #[serde(skip_deserializing)] on row, column and zone: usize::default()
ProductItem_from_json(json) ==
    [id |-> json.id, row |-> 0, column |-> 0, zone |-> 0,
     expiry_date |->
         IF "expiry_date" \in DOMAIN json
         THEN Some(CHOOSE date \in 1..MaxDate : date_to_string(date) = json.expiry_date)
         ELSE None]

\* Warehouse, Row, Column and Zone write and read every field
Warehouse_to_json(w) ==
    [row_count |-> w.row_count, column_count |-> w.column_count,
     capacity |-> w.capacity, available_space |-> w.available_space,
     rows |-> [ri \in 1..Len(w.rows) |-> Let(w.rows[ri], LAMBDA r :
        [row_number |-> r.row_number, column_count |-> r.column_count,
         capacity |-> r.capacity, available_space |-> r.available_space,
         columns |-> [ci \in 1..Len(r.columns) |-> Let(r.columns[ci], LAMBDA col :
            [column_number |-> col.column_number, row_number |-> col.row_number,
             capacity |-> col.capacity, available_space |-> col.available_space,
             zones |-> [zi \in 1..Len(col.zones) |-> Let(col.zones[zi], LAMBDA zo :
                [zone_number |-> zo.zone_number, column_number |-> zo.column_number,
                 row_number |-> zo.row_number,
                 item |-> IF is_none(zo.item) THEN None
                          ELSE Some(ProductItem_to_json(zo.item[1]))])]])]])]]

Warehouse_from_json(json) ==
    [row_count |-> json.row_count, column_count |-> json.column_count,
     capacity |-> json.capacity, available_space |-> json.available_space,
     rows |-> [ri \in 1..Len(json.rows) |-> Let(json.rows[ri], LAMBDA r :
        [row_number |-> r.row_number, column_count |-> r.column_count,
         capacity |-> r.capacity, available_space |-> r.available_space,
         columns |-> [ci \in 1..Len(r.columns) |-> Let(r.columns[ci], LAMBDA col :
            [column_number |-> col.column_number, row_number |-> col.row_number,
             capacity |-> col.capacity, available_space |-> col.available_space,
             zones |-> [zi \in 1..Len(col.zones) |-> Let(col.zones[zi], LAMBDA zo :
                [zone_number |-> zo.zone_number, column_number |-> zo.column_number,
                 row_number |-> zo.row_number,
                 item |-> IF is_none(zo.item) THEN None
                          ELSE Some(ProductItem_from_json(zo.item[1]))])]])]])]]

ProductList_to_json(pl) ==
    [products |-> [key \in {ToString(i) : i \in DOMAIN pl} |->
                      Let(CHOOSE i \in DOMAIN pl : ToString(i) = key, LAMBDA i :
                          [id |-> pl[i].id, name |-> pl[i].name, price |-> pl[i].price,
                           quantity |-> pl[i].quantity])]]

ProductList_from_json(json) ==
    [i \in {CHOOSE i \in 0..StoreProducts + 1 : ToString(i) = key :
                key \in DOMAIN json.products} |->
        Let(json.products[ToString(i)], LAMBDA member :
            Product_new(member.id, member.name, member.price, member.quantity))]

\* Storage (its name and file_path, two strings no operation changes, left out)
Storage_to_json(pl, w) ==
    [product_list |-> ProductList_to_json(pl), warehouse |-> Warehouse_to_json(w)]

\* ----------------------------------------------------------------- sorting
\* slices are sequences; the code's indices count from 0, so v[i] of the code
\* is v[i + 1] here
StackOverflow == [kind |-> "StackOverflow", at |-> <<>>]

swap(v, a, b) == [v EXCEPT ![a + 1] = v[b + 1], ![b + 1] = v[a + 1]]

\* for i in i..high of partition; the pivot value sits at v[high]
RECURSIVE partition_loop(_, _, _, _)
partition_loop(v, i, high, store_index) ==
    IF i >= high THEN [v |-> v, store_index |-> store_index]
    ELSE IF v[i + 1] < v[high + 1]
         THEN partition_loop(swap(v, i, store_index), i + 1, high, store_index + 1)
         ELSE partition_loop(v, i + 1, high, store_index)

partition(v, low, high, pivot) ==
    Let(partition_loop(swap(v, pivot, high), low, high, low), LAMBDA p :
        [v |-> swap(p.v, p.store_index, high), store_index |-> p.store_index])

RECURSIVE quicksort_base(_, _, _)
quicksort_base(v, low, high) ==
    IF low < high
    THEN Let(partition(v, low, high, (low + high) \div 2), LAMBDA p :
             quicksort_base(IF p.store_index > 0
                            THEN quicksort_base(p.v, low, p.store_index - 1)
                            ELSE p.v,
                            ((low + high) \div 2) + 1, high))
    ELSE v

quicksort(v) ==
    IF Len(v) <= 1 THEN [v |-> v, res |-> Ok]
    ELSE [v |-> quicksort_base(v, 0, Len(v) - 1), res |-> Ok]

\* for j in j..len - i - 1
RECURSIVE bubble_inner(_, _, _)
bubble_inner(v, i, j) ==
    IF j >= Len(v) - i - 1 THEN v
    ELSE bubble_inner(IF v[j + 1] > v[j + 2] THEN swap(v, j, j + 1) ELSE v, i, j + 1)

\* for i in i..len
RECURSIVE bubble_outer(_, _, _)
bubble_outer(v, i, len) ==
    IF i >= len THEN v ELSE bubble_outer(bubble_inner(v, i, 0), i + 1, len)

\* a bubble sort that stops after its first pass
bubble_sort_one_pass(v) == [v |-> bubble_outer(v, 0, 1), res |-> Ok]

bubble_sort(v) == [v |-> bubble_outer(v, 0, Len(v)), res |-> Ok]

\* for j in j..len: the index of the first least element of v[i..]
RECURSIVE selection_min(_, _, _)
selection_min(v, j, min) ==
    IF j >= Len(v) THEN min
    ELSE selection_min(v, j + 1, IF v[j + 1] < v[min + 1] THEN j ELSE min)

RECURSIVE selection_outer(_, _)
selection_outer(v, i) ==
    IF i >= Len(v) THEN v
    ELSE selection_outer(swap(v, i, selection_min(v, i + 1, i)), i + 1)

selection_sort(v) == [v |-> selection_outer(v, 0), res |-> Ok]

\* the three loops of merge: left and right are copies of v[low..mid] and
\* v[mid..high], written back from v[k]
RECURSIVE merge_loop(_, _, _, _, _, _)
merge_loop(v, left, right, i, j, k) ==
    IF i < Len(left) /\ j < Len(right)
    THEN IF left[i + 1] <= right[j + 1]
         THEN merge_loop([v EXCEPT ![k + 1] = left[i + 1]], left, right, i + 1, j, k + 1)
         ELSE merge_loop([v EXCEPT ![k + 1] = right[j + 1]], left, right, i, j + 1, k + 1)
    ELSE IF i < Len(left)
    THEN merge_loop([v EXCEPT ![k + 1] = left[i + 1]], left, right, i + 1, j, k + 1)
    ELSE IF j < Len(right)
    THEN merge_loop([v EXCEPT ![k + 1] = right[j + 1]], left, right, i, j + 1, k + 1)
    ELSE v

merge(v, low, mid, high) ==
    merge_loop(v, SubSeq(v, low + 1, mid), SubSeq(v, mid + 1, high), 0, 0, low)

\* high - 1 on usize: with high = 0 it panics when overflow checks are
\* compiled in; otherwise it wraps to 2^64 - 1, low < high - 1 holds, mid is
\* (0 + 0) / 2 and the call repeats itself with the same arguments until the
\* stack is exhausted
RECURSIVE merge_sort_base(_, _, _)
merge_sort_base(v, low, high) ==
    IF high = 0
    THEN [v |-> v, res |-> IF overflow_checks THEN Panic ELSE StackOverflow]
    ELSE IF low < high - 1
    THEN Let(merge_sort_base(v, low, (low + high) \div 2), LAMBDA l :
             IF l.res # Ok THEN l
             ELSE Let(merge_sort_base(l.v, (low + high) \div 2, high), LAMBDA r :
                      IF r.res # Ok THEN r
                      ELSE [v |-> merge(r.v, low, (low + high) \div 2, high),
                            res |-> Ok]))
    ELSE [v |-> v, res |-> Ok]

merge_sort(v) == merge_sort_base(v, 0, Len(v))

\* while j > 0 && v[j] < v[j - 1]
RECURSIVE insertion_inner(_, _)
insertion_inner(v, j) ==
    IF j > 0 /\ v[j + 1] < v[j]
    THEN insertion_inner(swap(v, j, j - 1), j - 1)
    ELSE v

\* for i in i..len
RECURSIVE insertion_outer(_, _)
insertion_outer(v, i) ==
    IF i >= Len(v) THEN v ELSE insertion_outer(insertion_inner(v, i), i + 1)

insertion_sort(v) == [v |-> insertion_outer(v, 1), res |-> Ok]

NoSort == [fn |-> "none", input |-> <<>>, res |-> Ok]

\* ------------------------------------------------------------- the machine
NoCall ==
    [op |-> "initialize_rows", product_id |-> 0, qty |-> 0, expiry_date |-> None,
     res |-> Ok, case |-> "none", pos |-> None]

Returned == last.res.kind \notin {"Panic", "Hang"}

Init ==
    /\ overflow_checks \in BOOLEAN
    /\ \E row_count \in 1..MaxRows, col_per_row \in 1..MaxCols, zone_per_col \in 1..MaxZones :
           warehouse = initialize_rows(Warehouse_new, 1, row_count, col_per_row, zone_per_col)
    /\ pre = warehouse
    /\ last = NoCall
    /\ run = None
    /\ ops = 0
    /\ nums = <<>>
    /\ sort_call = NoSort
    /\ product_list = ProductList_new
    /\ file = None

AddItems(product_id, qty, expiry_date) ==
    /\ Returned
    /\ \E order \in add_orders(warehouse, product_id, qty) :
       \E a \in {add_items_by_qty(warehouse, product_id, qty, expiry_date, order)} :
         /\ warehouse' = a.v
         /\ last' = [op |-> "add_items_by_qty", product_id |-> product_id, qty |-> qty,
                     expiry_date |-> expiry_date, res |-> a.res,
                     case |-> add_case(warehouse, product_id, qty), pos |-> None]
         /\ run' = IF a.res # Ok THEN None
                   ELSE IF is_some(run) /\ ~run[1].closed /\ run[1].product_id = product_id
                        THEN run
                        ELSE Some([product_id |-> product_id, before |-> warehouse,
                                   closed |-> FALSE])
    /\ pre' = warehouse
    /\ ops' = ops + 1
    /\ UNCHANGED <<overflow_checks, nums, sort_call, product_list, file>>

RemoveItems(product_id, qty) ==
    /\ Returned
    /\ \E a \in {remove_item_by_qty(warehouse, product_id, qty)} :
         /\ warehouse' = a.v
         /\ last' = [op |-> "remove_item_by_qty", product_id |-> product_id, qty |-> qty,
                     expiry_date |-> None, res |-> a.res, case |-> "none", pos |-> None]
    /\ run' = None
    /\ pre' = warehouse
    /\ ops' = ops + 1
    /\ UNCHANGED <<overflow_checks, nums, sort_call, product_list, file>>

RemoveAllItems(product_id) ==
    /\ Returned
    /\ \E a \in {remove_all_items(warehouse, product_id)} :
         /\ warehouse' = a.v
         /\ last' = [op |-> "remove_all_items", product_id |-> product_id, qty |-> 0,
                     expiry_date |-> None, res |-> a.res, case |-> "none", pos |-> None]
    /\ run' = IF is_some(run) /\ ~run[1].closed /\ run[1].product_id = product_id
              THEN Some([run[1] EXCEPT !.closed = TRUE])
              ELSE None
    /\ pre' = warehouse
    /\ ops' = ops + 1
    /\ UNCHANGED <<overflow_checks, nums, sort_call, product_list, file>>

FindContiguousSpace(required_space) ==
    /\ Returned
    /\ \E f \in {find_contiguous_space(warehouse, required_space)} :
         last' = [op |-> "find_contiguous_space", product_id |-> 0, qty |-> required_space,
                  expiry_date |-> None, res |-> f.res, case |-> "none", pos |-> f.pos]
    /\ run' = None
    /\ pre' = warehouse
    /\ ops' = ops + 1
    /\ UNCHANGED <<warehouse, overflow_checks, nums, sort_call, product_list, file>>

Next ==
    \/ \E product_id \in Products, qty \in 1..MaxQty, expiry_date \in Dates :
           ops < MaxOps /\ AddItems(product_id, qty, expiry_date)
    \/ \E product_id \in Products, qty \in 1..MaxQty :
           ops < MaxOps /\ RemoveItems(product_id, qty)
    \/ \E product_id \in Products : ops < MaxOps /\ RemoveAllItems(product_id)
    \/ \E required_space \in 1..(MaxQty + 1) :
           ops < MaxOps /\ FindContiguousSpace(required_space)

Spec == Init /\ [][Next]_vars

\* the calls of a caller that stores undated units of one product and
\* searches for space, MaxSearchOps calls deep
NextSearch ==
    \/ ops < MaxSearchOps /\ \E qty \in 1..MaxQty : AddItems(1, qty, None)
    \/ ops < MaxSearchOps /\ \E qty \in 1..MaxQty : RemoveItems(1, qty)
    \/ ops < MaxSearchOps /\ RemoveAllItems(1)
    \/ ops < MaxSearchOps
       /\ \E required_space \in 1..(MaxQty + 1) : FindContiguousSpace(required_space)

SpecSearch == Init /\ [][NextSearch]_vars

\* the calls of a caller that fills single zones with units of product 1
\* (add_item), stores batches of product 2 and searches for space,
\* MaxSlotOps calls deep
InitSlots ==
    /\ overflow_checks \in BOOLEAN
    /\ \E row_count \in 1..SlotRows, col_per_row \in 1..SlotCols, zone_per_col \in 1..SlotZones :
           warehouse = initialize_rows(Warehouse_new, 1, row_count, col_per_row, zone_per_col)
    /\ pre = warehouse
    /\ last = NoCall
    /\ run = None
    /\ ops = 0
    /\ nums = <<>>
    /\ sort_call = NoSort
    /\ product_list = ProductList_new
    /\ file = None

AddItem(row_number, column_number, zone_number, product_id) ==
    /\ Returned /\ ops < MaxSlotOps
    /\ \E a \in {add_item(warehouse, row_number, column_number, zone_number,
                    ProductItem_new(product_id, row_number, column_number, zone_number, None))} :
         /\ warehouse' = a.v
         /\ last' = [op |-> "add_item", product_id |-> product_id, qty |-> 0,
                     expiry_date |-> None, res |-> a.res, case |-> "none",
                     pos |-> Some(<<row_number, column_number, zone_number>>)]
    /\ run' = None
    /\ pre' = warehouse
    /\ ops' = ops + 1
    /\ UNCHANGED <<overflow_checks, nums, sort_call, product_list, file>>

SlotsAdd ==
    \E row_number \in 1..SlotRows, column_number \in 1..SlotCols,
       zone_number \in 1..SlotZones :
        AddItem(row_number, column_number, zone_number, 1)

NextSlots ==
    \/ SlotsAdd
    \/ ops < MaxSlotOps
       /\ \E qty \in 1..MaxQty, expiry_date \in {None, Some(MaxDate)} :
              AddItems(2, qty, expiry_date)
    \/ ops < MaxSlotOps
       /\ \E required_space \in 1..(MaxQty + 1) : FindContiguousSpace(required_space)

SpecSlots == InitSlots /\ [][NextSlots]_vars

\* the calls of a caller that fills single zones with units of product 1,
\* MaxSlotOps of them, and asks of each product whether it is stored
\* contiguously
IsProductStoredContiguously(product_id) ==
    /\ Returned
    /\ last' = [op |-> "is_product_stored_contiguously", product_id |-> product_id,
                qty |-> 0, expiry_date |-> None, res |-> Ok, case |-> "none",
                pos |-> Some(is_product_stored_contiguously(warehouse, product_id))]
    /\ run' = None
    /\ pre' = warehouse
    /\ UNCHANGED <<warehouse, overflow_checks, ops, nums, sort_call, product_list, file>>

NextContig ==
    \/ SlotsAdd
    \/ \E product_id \in Products : IsProductStoredContiguously(product_id)

SpecContig == InitSlots /\ [][NextContig]_vars

\* the calls of a caller that fills single zones with units of product 1,
\* MaxSlotOps of them, and asks for the zone at a flat position
FlatMapPositionToZone(position) ==
    /\ Returned
    /\ last' = [op |-> "flat_map_position_to_zone", product_id |-> 0,
                qty |-> position, expiry_date |-> None, res |-> Ok, case |-> "none",
                pos |-> flat_map_position_to_zone(warehouse, position)]
    /\ run' = None
    /\ pre' = warehouse
    /\ UNCHANGED <<warehouse, overflow_checks, ops, nums, sort_call, product_list, file>>

\* a query leaves the grid as it was, so the calls that can follow it are the
\* calls that can follow the state before it: they are taken from there
NextFlat ==
    \/ last.op # "flat_map_position_to_zone" /\ SlotsAdd
    \/ last.op # "flat_map_position_to_zone"
       /\ \E position \in 0..(SlotRows * SlotCols * SlotZones + 1) :
              FlatMapPositionToZone(position)

SpecFlat == InitSlots /\ [][NextFlat]_vars

\* the administrative calls on the grid, one of its rows or one of its
\* columns, after single zones were filled with add_item; MaxSlotOps calls
\* deep.  last.pos names the parent the call was made on: <<>> for the
\* grid, <<row index>> for a row, <<row index, column index>> for a column
Admin(op, parent, w1, res) ==
    /\ warehouse' = w1
    /\ last' = [op |-> op, product_id |-> 0, qty |-> 0, expiry_date |-> None,
                res |-> res, case |-> "none", pos |-> Some(parent)]
    /\ run' = None
    /\ pre' = warehouse
    /\ ops' = ops + 1
    /\ UNCHANGED <<overflow_checks, nums, sort_call, product_list, file>>

NextAdmin ==
    \/ SlotsAdd
    \/ /\ Returned /\ ops < MaxSlotOps
       /\ \E row_number \in 1..(SlotRows + 1), col_per_row \in 1..SlotCols,
             zone_per_col \in 1..SlotZones :
              Admin("add_row", <<>>,
                    add_row(warehouse,
                        Row_initialize_columns(Row_new(row_number), 1, col_per_row,
                                               zone_per_col)),
                    Ok)
    \/ /\ Returned /\ ops < MaxSlotOps
       /\ \E row_number \in 1..(SlotRows + 1) :
          \E a \in {remove_row(warehouse, row_number)} :
              Admin("remove_row", <<>>, a.v, a.res)
    \/ /\ Returned /\ ops < MaxSlotOps
       /\ \E ri \in 1..Len(warehouse.rows), column_number \in 1..(SlotCols + 1),
             zone_count \in 1..SlotZones :
              Admin("add_column", <<ri>>,
                    [warehouse EXCEPT !.rows[ri] =
                        Row_add_column(@,
                            Column_initialize_zones(
                                Column_new(column_number, warehouse.rows[ri].row_number),
                                1, zone_count))],
                    Ok)
    \/ /\ Returned /\ ops < MaxSlotOps
       /\ \E ri \in 1..Len(warehouse.rows), column_number \in 1..(SlotCols + 1) :
          \E a \in {Row_remove_column(warehouse.rows[ri], column_number)} :
              Admin("remove_column", <<ri>>, [warehouse EXCEPT !.rows[ri] = a.v], a.res)
    \/ /\ Returned /\ ops < MaxSlotOps
       /\ \E ri \in 1..Len(warehouse.rows), zone_number \in 1..(SlotZones + 1) :
          \E ci \in 1..Len(warehouse.rows[ri].columns) :
              Admin("add_zone", <<ri, ci>>,
                    [warehouse EXCEPT !.rows[ri].columns[ci] =
                        Column_add_zone(@, Zone_new(zone_number, @.column_number,
                                                    @.row_number, None))],
                    Ok)
    \/ /\ Returned /\ ops < MaxSlotOps
       /\ \E ri \in 1..Len(warehouse.rows), zone_number \in 1..(SlotZones + 1) :
          \E ci \in 1..Len(warehouse.rows[ri].columns) :
          \E a \in {Column_remove_zone(warehouse.rows[ri].columns[ci], zone_number)} :
              Admin("remove_zone", <<ri, ci>>,
                    [warehouse EXCEPT !.rows[ri].columns[ci] = a.v], a.res)

SpecAdmin == InitSlots /\ [][NextAdmin]_vars

\* the calls of a caller that stores and removes batches of two products on
\* a small grid, MaxDeepOps calls deep
NextDeep ==
    \/ ops < MaxDeepOps
       /\ \E product_id \in Products, qty \in 1..MaxQty, expiry_date \in {None, Some(MaxDate)} :
              AddItems(product_id, qty, expiry_date)
    \/ ops < MaxDeepOps
       /\ \E product_id \in Products, qty \in 1..MaxQty : RemoveItems(product_id, qty)
    \/ ops < MaxDeepOps /\ \E product_id \in Products : RemoveAllItems(product_id)

SpecDeep == InitSlots /\ [][NextDeep]_vars

\* the calls of a caller that only stores batches, on grids of up to
\* WideCols columns, MaxWideOps calls deep
InitWide ==
    /\ overflow_checks \in BOOLEAN
    /\ \E row_count \in 1..WideRows, col_per_row \in 1..WideCols, zone_per_col \in 1..WideZones :
           warehouse = initialize_rows(Warehouse_new, 1, row_count, col_per_row, zone_per_col)
    /\ pre = warehouse
    /\ last = NoCall
    /\ run = None
    /\ ops = 0
    /\ nums = <<>>
    /\ sort_call = NoSort
    /\ product_list = ProductList_new
    /\ file = None

NextWide ==
    \/ ops < MaxWideOps
       /\ \E product_id \in Products, qty \in 1..MaxQty, expiry_date \in Dates :
              AddItems(product_id, qty, expiry_date)

SpecWide == InitWide /\ [][NextWide]_vars

\* the calls of a caller that stores and removes batches of product 1 and
\* moves single units between zones, stops at the first call that fails, and
\* makes at most MaxMoveOps calls
MoveItem(current_zone, new_zone) ==
    /\ Returned
    /\ \E a \in {move_item(warehouse, current_zone, new_zone)} :
         /\ warehouse' = a.v
         /\ last' = [op |-> "move_item", product_id |-> 0, qty |-> 0,
                     expiry_date |-> None, res |-> a.res, case |-> "none",
                     pos |-> Some(<<current_zone, new_zone>>)]
    /\ run' = None
    /\ pre' = warehouse
    /\ ops' = ops + 1
    /\ UNCHANGED <<overflow_checks, nums, sort_call, product_list, file>>

InitMove ==
    /\ overflow_checks \in BOOLEAN
    /\ \E row_count \in 1..MoveRows, col_per_row \in 1..MoveCols, zone_per_col \in 1..MoveZones :
           warehouse = initialize_rows(Warehouse_new, 1, row_count, col_per_row, zone_per_col)
    /\ pre = warehouse
    /\ last = NoCall
    /\ run = None
    /\ ops = 0
    /\ nums = <<>>
    /\ sort_call = NoSort
    /\ product_list = ProductList_new
    /\ file = None

NextMove ==
    \/ ops < MaxMoveOps /\ last.res = Ok
       /\ \E qty \in 1..MaxQty, expiry_date \in {None, Some(MaxDate)} :
              AddItems(1, qty, expiry_date)
    \/ ops < MaxMoveOps /\ last.res = Ok
       /\ \E current_zone \in (1..MoveRows) \X (1..MoveCols) \X (1..MoveZones),
             new_zone \in (1..MoveRows) \X (1..MoveCols) \X (1..MoveZones) :
              MoveItem(current_zone, new_zone)
    \/ ops < MaxMoveOps /\ last.res = Ok
       /\ \E qty \in 1..MaxQty : RemoveItems(1, qty)
    \/ ops < MaxMoveOps /\ last.res = Ok /\ RemoveAllItems(1)

SpecMove == InitMove /\ [][NextMove]_vars

\* ------------------------------------------------------------ the Storage
\* a Storage over a small grid with StoreProducts catalog entries
StoreNames == <<"flour", "sugar", "salt", "rice">>

RECURSIVE catalog_of(_)
catalog_of(n) ==
    IF n = 0 THEN ProductList_new
    ELSE new_product(catalog_of(n - 1), StoreNames[n], n).v

InitStore ==
    /\ overflow_checks \in BOOLEAN
    /\ \E row_count \in 1..StoreRows, col_per_row \in 1..StoreCols,
          zone_per_col \in 1..StoreZones :
           warehouse = initialize_rows(Warehouse_new, 1, row_count, col_per_row, zone_per_col)
    /\ pre = warehouse
    /\ last = NoCall
    /\ run = None
    /\ ops = 0
    /\ nums = <<>>
    /\ sort_call = NoSort
    /\ product_list = catalog_of(StoreProducts)
    /\ file = None

\* a Storage operation that answered r is recorded with its arguments
StorageCall(op, product_id, qty, expiry_date, r) ==
    /\ product_list' = r.pl
    /\ warehouse' = r.w
    /\ last' = [op |-> op, product_id |-> product_id, qty |-> qty,
                expiry_date |-> expiry_date, res |-> r.res, case |-> "none", pos |-> None]
    /\ run' = None
    /\ pre' = warehouse
    /\ ops' = ops + 1
    /\ UNCHANGED <<overflow_checks, nums, sort_call, file>>

RestockProduct(id, quantity, expiration_date) ==
    \E order \in add_orders(warehouse, id, quantity) :
        StorageCall("restock_product", id, quantity, expiration_date,
                    restock_product(product_list, warehouse, id, quantity,
                                    expiration_date, order))

RestockByName(n, quantity, expiration_date) ==
    \E order \in add_orders(warehouse, n, quantity) :
        StorageCall("restock_by_name", n, quantity, expiration_date,
                    restock_by_name(product_list, warehouse, StoreNames[n], quantity,
                                    expiration_date, order))

RemoveStock(id, quantity) ==
    StorageCall("remove_stock", id, quantity, None,
                remove_stock(product_list, warehouse, id, quantity))

EmptyStock(id) ==
    StorageCall("empty_stock", id, 0, None, empty_stock(product_list, warehouse, id))

\* File::create and write_all succeed
Save ==
    /\ file' = Some(Storage_to_json(product_list, warehouse))
    /\ last' = [op |-> "save", product_id |-> 0, qty |-> 0, expiry_date |-> None,
                res |-> Ok, case |-> "none", pos |-> None]
    /\ run' = None
    /\ pre' = warehouse
    /\ ops' = ops + 1
    /\ UNCHANGED <<warehouse, product_list, overflow_checks, nums, sort_call>>

Load ==
    /\ IF is_none(file)
       THEN /\ last' = [op |-> "load", product_id |-> 0, qty |-> 0, expiry_date |-> None,
                        res |-> Err("Io", <<>>), case |-> "none", pos |-> None]
            /\ UNCHANGED <<warehouse, product_list>>
       ELSE /\ product_list' = ProductList_from_json(file[1].product_list)
            /\ warehouse' = Warehouse_from_json(file[1].warehouse)
            /\ last' = [op |-> "load", product_id |-> 0, qty |-> 0, expiry_date |-> None,
                        res |-> Ok, case |-> "none", pos |-> None]
    /\ run' = None
    /\ pre' = warehouse
    /\ ops' = ops + 1
    /\ UNCHANGED <<file, overflow_checks, nums, sort_call>>

\* the caller stops at the first call that fails; ids and names one past the
\* catalog are asked for too
NextStore ==
    \/ /\ ops < MaxStoreOps /\ last.res = Ok
       /\ \E id \in 1..StoreProducts + 1, quantity \in 1..StoreQty,
             expiration_date \in {None, Some(MaxDate)} :
              RestockProduct(id, quantity, expiration_date)
    \/ /\ ops < MaxStoreOps /\ last.res = Ok
       /\ \E n \in 1..StoreProducts + 1, quantity \in 1..StoreQty,
             expiration_date \in {None, Some(MaxDate)} :
              RestockByName(n, quantity, expiration_date)
    \/ /\ ops < MaxStoreOps /\ last.res = Ok
       /\ \E id \in 1..StoreProducts + 1, quantity \in 1..StoreQty :
              RemoveStock(id, quantity)
    \/ /\ ops < MaxStoreOps /\ last.res = Ok
       /\ \E id \in 1..StoreProducts + 1 : EmptyStock(id)
    \/ ops < MaxStoreOps /\ last.res = Ok /\ Save
    \/ ops < MaxStoreOps /\ last.res = Ok /\ Load

SpecStore == InitStore /\ [][NextStore]_vars

\* one sort applied to a slice of up to MaxLen integers
Slices == UNION {[1..n -> 1..MaxVal] : n \in 0..MaxLen}

InitSort ==
    /\ overflow_checks \in BOOLEAN
    /\ nums \in Slices
    /\ sort_call = NoSort
    /\ product_list = ProductList_new
    /\ file = None
    /\ warehouse = Warehouse_new
    /\ pre = Warehouse_new
    /\ last = NoCall
    /\ run = None
    /\ ops = 0

Sorted(fn, sorted) ==
    /\ sort_call = NoSort
    /\ nums' = sorted.v
    /\ sort_call' = [fn |-> fn, input |-> nums, res |-> sorted.res]
    /\ UNCHANGED <<warehouse, overflow_checks, last, pre, run, ops, product_list, file>>

NextSort ==
    \/ Sorted("quicksort", quicksort(nums))
    \/ Sorted("bubble_sort", bubble_sort(nums))
    \/ Sorted("selection_sort", selection_sort(nums))
    \/ Sorted("merge_sort", merge_sort(nums))
    \/ Sorted("insertion_sort", insertion_sort(nums))

SpecSort == InitSort /\ [][NextSort]_vars

\* ------------------------------------------------------------------ claims
\* the paths <<row index, column index, zone index>> of every zone of w
Paths(w) ==
    UNION {UNION {{<<ri, ci, zi>> : zi \in 1..Len(w.rows[ri].columns[ci].zones)} :
                  ci \in 1..Len(w.rows[ri].columns)} : ri \in 1..Len(w.rows)}

\* the paths of the zones whose occupant has product id product_id
Holding(w, product_id) == {path \in Paths(w) : Zone_holds(zone_of(w, path), product_id)}

\* of those, the ones whose occupant carries an expiration date
Dated(w, product_id) ==
    {path \in Holding(w, product_id) : is_some(zone_of(w, path).item[1].expiry_date)}

DateAt(w, path) == zone_of(w, path).item[1].expiry_date[1]

\* offset of a zone in scan order (rows, then columns, then zones)
FlatIndex(w, path) ==
    Cardinality({q \in Paths(w) :
        \/ q[1] < path[1]
        \/ q[1] = path[1] /\ q[2] < path[2]
        \/ q[1] = path[1] /\ q[2] = path[2] /\ q[3] < path[3]})

AggregatesAgree(w) ==
    /\ w.capacity = SumSeq([i \in 1..Len(w.rows) |-> w.rows[i].capacity])
    /\ w.available_space = SumSeq([i \in 1..Len(w.rows) |-> w.rows[i].available_space])
    /\ \A i \in 1..Len(w.rows) :
         /\ w.rows[i].capacity =
                SumSeq([j \in 1..Len(w.rows[i].columns) |-> w.rows[i].columns[j].capacity])
         /\ w.rows[i].available_space =
                SumSeq([j \in 1..Len(w.rows[i].columns) |->
                           w.rows[i].columns[j].available_space])

\* the available_space counters of every level
Counters(w) ==
    <<w.available_space,
      [i \in 1..Len(w.rows) |-> w.rows[i].available_space],
      [i \in 1..Len(w.rows) |->
          [j \in 1..Len(w.rows[i].columns) |-> w.rows[i].columns[j].available_space]]>>

AddReturnedOk == last.op = "add_items_by_qty" /\ last.res = Ok

\* C1: after every call that returned, capacity and available_space of the
\* grid equal the sums over its rows, and those of each row the sums over
\* its columns.
C1_CapacityInvariant == Returned => AggregatesAgree(warehouse)

\* C2: when add_items(p, n, d) returns success, the grid's available_space
\* is n lower than before the call and find_all_occurrences(p) is n longer.
C2_AddCounts ==
    AddReturnedOk =>
        /\ warehouse.available_space = pre.available_space - last.qty
        /\ Len(find_all_item_occurences(warehouse, last.product_id))
               = Len(find_all_item_occurences(pre, last.product_id)) + last.qty

\* C3: remove_all_items(p) after a run of successful add_items(p, ...) calls
\* (p absent before the first of them) succeeds, leaves no occurrence of p
\* and restores every available_space counter to its value before the run.
C3_RoundTrip ==
    (/\ last.op = "remove_all_items" /\ is_some(run) /\ run[1].closed
     /\ Holding(run[1].before, last.product_id) = {}) =>
        /\ last.res = Ok
        /\ Holding(warehouse, last.product_id) = {}
        /\ Counters(warehouse) = Counters(run[1].before)

\* the zones that held an occupant of the product before the last call and
\* do not hold that occupant any more
Removed == {path \in Holding(pre, last.product_id) :
               zone_of(warehouse, path).item # zone_of(pre, path).item}

\* C4: with at least qty dated occupants of p, remove_items(p, qty) removes
\* exactly the qty occupants of p with the earliest dates and no other.
C4_RemoveEarliest ==
    (/\ last.op = "remove_item_by_qty"
     /\ Cardinality(Dated(pre, last.product_id)) >= last.qty) =>
        /\ last.res = Ok
        /\ Cardinality(Removed) = last.qty
        /\ Removed \subseteq Dated(pre, last.product_id)
        /\ \A x \in Removed, y \in Dated(pre, last.product_id) \ Removed :
               DateAt(pre, x) <= DateAt(pre, y)

\* C5: with fewer dated occupants of p than qty (and p present),
\* remove_items(p, qty) succeeds and removes every occurrence of p.
C5_RemoveFallback ==
    (/\ last.op = "remove_item_by_qty"
     /\ Holding(pre, last.product_id) # {}
     /\ Cardinality(Dated(pre, last.product_id)) < last.qty) =>
        /\ last.res = Ok
        /\ Holding(warehouse, last.product_id) = {}

\* C6: after a successful add_items through Case A or Case B,
\* is_stored_contiguously(p) is true.
C6_ContiguityPreserved ==
    (AddReturnedOk /\ last.case \in {"A", "B"}) =>
        is_product_stored_contiguously(warehouse, last.product_id)

\* the occurrences occupy one run of consecutive offsets in scan order
OneRun(w, product_id) ==
    \A x, y \in Holding(w, product_id) :
        \A q \in Paths(w) :
            (FlatIndex(w, x) < FlatIndex(w, q) /\ FlatIndex(w, q) < FlatIndex(w, y))
                => q \in Holding(w, product_id)

\* in scan order, the dates of the dated occurrences never decrease
DatesAscend(w, product_id) ==
    \A x, y \in Dated(w, product_id) :
        FlatIndex(w, x) < FlatIndex(w, y) => DateAt(w, x) <= DateAt(w, y)

\* C7: after a successful add_items through Case C, all occurrences of p
\* occupy one contiguous run in scan order, and read in scan order their
\* expiration dates never decrease.
C7_Defragmented ==
    (AddReturnedOk /\ last.case = "C") =>
        /\ OneRun(warehouse, last.product_id)
        /\ DatesAscend(warehouse, last.product_id)

OneColumn(w) == Len(w.rows) = 1 /\ Len(w.rows[1].columns) = 1

\* C8: on a fresh one-column grid of capacity N, add_items(p, N, none)
\* succeeds and fills all N zones with p; a following add_items(p, 1, none)
\* fails with InsufficientSpace.
C8_FillThenInsufficient ==
    /\ (/\ ops = 1 /\ last.op = "add_items_by_qty" /\ OneColumn(pre)
        /\ last.qty = pre.capacity /\ last.expiry_date = None) =>
           /\ last.res = Ok
           /\ Holding(warehouse, last.product_id) = Paths(warehouse)
    /\ (/\ ops = 2 /\ last.op = "add_items_by_qty" /\ OneColumn(pre)
        /\ last.qty = 1 /\ last.expiry_date = None
        /\ Holding(pre, last.product_id) = Paths(pre)) =>
           last.res = InsufficientSpace

\* C9: every call returns: success or one typed error, never a loop without
\* end and never an abort.
C9_EveryCallReturns == last.res.kind \notin {"Panic", "Hang"}

\* C10: find_contiguous_space(n) fails with InsufficientSpace whenever
\* n > grid.available_space, and with NoContiguousSpace only when
\* n <= grid.available_space.
C10_CapacityCheckFirst ==
    last.op = "find_contiguous_space" =>
        /\ ULt(warehouse.available_space, last.qty) => last.res = InsufficientSpace
        /\ last.res = NoContiguousSpace => ~ULt(warehouse.available_space, last.qty)

\* the capacity check answers although no run of n empty zones exists either
C10_Witness ==
    /\ last.op = "find_contiguous_space"
    /\ last.res = InsufficientSpace
    /\ ULt(warehouse.available_space, last.qty)
    /\ is_none(find_zeros(flat_map(warehouse), last.qty))

\* the paths of every zone of w as a sequence in scan order: rows, then
\* columns, then zones
ScanOrder(w) ==
    Concat([ri \in 1..Len(w.rows) |->
        Concat([ci \in 1..Len(w.rows[ri].columns) |->
            [zi \in 1..Len(w.rows[ri].columns[ci].zones) |-> <<ri, ci, zi>>]])])

\* the offsets i at which the n zones scan[i + 1], ..., scan[i + n] are all empty
EmptyRuns(w, scan, n) ==
    {i \in 0..(Len(scan) - n) : \A k \in 1..n : Zone_is_empty(zone_of(w, scan[i + k]))}

FirstFit(w, scan, runs, found) ==
    /\ (found.res = NoContiguousSpace) <=> (runs = {})
    /\ runs # {} =>
           /\ found.res = Ok
           /\ is_some(found.pos)
           /\ \E i \in runs : /\ scan[i + 1] = found.pos[1]
                               /\ \A j \in runs : i <= j

\* C11: when n <= grid.available_space, find_contiguous_space(n) returns the
\* (row, column, zone) of the lowest offset at which n consecutive zones are
\* empty, and fails with NoContiguousSpace exactly when there is no such run.
C11_FirstFit ==
    (last.op = "find_contiguous_space" /\ ~ULt(warehouse.available_space, last.qty)) =>
        Let(ScanOrder(warehouse), LAMBDA scan :
            Let(EmptyRuns(warehouse, scan, last.qty), LAMBDA runs :
                FirstFit(warehouse, scan, runs, last)))

\* a search that had to pass over an empty zone too short a run to serve
C11_Witness ==
    /\ last.op = "find_contiguous_space"
    /\ last.res = Ok
    /\ last.qty >= 2
    /\ \E q \in Paths(warehouse) :
           /\ Zone_is_empty(zone_of(warehouse, q))
           /\ FlatIndex(warehouse, q) < FlatIndex(warehouse, last.pos[1])

\* a fragmented grid: room enough in total, no run long enough
C11_WitnessFragmented ==
    /\ last.op = "find_contiguous_space"
    /\ last.res = NoContiguousSpace
    /\ Cardinality({q \in Paths(warehouse) : Zone_is_empty(zone_of(warehouse, q))}) >= last.qty

\* C12: remove_all_items(p) succeeds and removes every occurrence of p when
\* p has an occurrence, and fails with NoProductFound, the grid unchanged,
\* exactly when p has none.
C12_RemoveAll ==
    last.op = "remove_all_items" =>
        IF Holding(pre, last.product_id) # {}
        THEN last.res = Ok /\ Holding(warehouse, last.product_id) = {}
        ELSE last.res = NoProductFound /\ warehouse = pre

EmptyZones(col) == Cardinality({zi \in 1..Len(col.zones) : Zone_is_empty(col.zones[zi])})

\* C13: after every call that returned, each column's capacity is its number
\* of zones and its available_space is the number of its empty zones.
C13_ColumnInvariant ==
    Returned =>
        \A ri \in 1..Len(warehouse.rows) :
            \A ci \in 1..Len(warehouse.rows[ri].columns) :
                /\ warehouse.rows[ri].columns[ci].capacity
                       = Len(warehouse.rows[ri].columns[ci].zones)
                /\ warehouse.rows[ri].columns[ci].available_space
                       = EmptyZones(warehouse.rows[ri].columns[ci])

\* the zones holding the product, by their 1-based (row, column, zone), in
\* scan order
HoldingInOrder(w, product_id) ==
    SelectSeq(ScanOrder(w), LAMBDA q : Zone_holds(zone_of(w, q), product_id))

\* C14: find_all_occurrences(p) lists the 1-based (row, column, zone) of each
\* zone holding p exactly once, in scan order; find_item(p) is none exactly
\* when p has no occurrence, and otherwise the 1-based identity of a zone
\* holding p.
C14_FindPositions ==
    Returned =>
        \A product_id \in Products :
            /\ find_all_item_occurences(warehouse, product_id)
                   = HoldingInOrder(warehouse, product_id)
            /\ is_none(find_item(warehouse, product_id))
                   <=> (Holding(warehouse, product_id) = {})
            /\ is_some(find_item(warehouse, product_id)) =>
                   find_item(warehouse, product_id)[1] \in Holding(warehouse, product_id)

Occurrences(s, x) == Cardinality({i \in 1..Len(s) : s[i] = x})

\* what the reference sort of input leaves: the ascending arrangement of the
\* same elements
ReferenceSort(output, input) ==
    /\ Len(output) = Len(input)
    /\ \A i \in 1..(Len(output) - 1) : output[i] <= output[i + 1]
    /\ \A x \in 1..MaxVal : Occurrences(output, x) = Occurrences(input, x)

\* C15: quicksort leaves the slice sorted ascending and equal to the
\* reference sort of the input.
C15_Quicksort ==
    sort_call.fn = "quicksort" =>
        sort_call.res = Ok /\ ReferenceSort(nums, sort_call.input)

\* C16: merge_sort returns, for every input and also the empty and the
\* one-element slice, and leaves the slice equal to the reference sort of
\* the input.
C16_MergeSort ==
    sort_call.fn = "merge_sort" =>
        sort_call.res = Ok /\ ReferenceSort(nums, sort_call.input)

\* C17: bubble_sort, selection_sort and insertion_sort each leave the slice
\* equal to the reference sort of the input, so the three agree.
C17_SimpleSortsAgree ==
    sort_call.fn \in {"bubble_sort", "selection_sort", "insertion_sort"} =>
        /\ sort_call.res = Ok
        /\ ReferenceSort(nums, sort_call.input)
        /\ bubble_sort(sort_call.input) = selection_sort(sort_call.input)
        /\ selection_sort(sort_call.input) = insertion_sort(sort_call.input)

\* a slice with a repeated element and its greatest element first, sorted by
\* one of the three
C17_Witness ==
    /\ sort_call.fn \in {"bubble_sort", "selection_sort", "insertion_sort"}
    /\ Len(sort_call.input) = MaxLen
    /\ \A i \in 2..MaxLen : sort_call.input[1] > sort_call.input[i]
    /\ \E i, j \in 2..MaxLen : i # j /\ sort_call.input[i] = sort_call.input[j]
    /\ nums # sort_call.input

\* the zone at path holds a unit of product_id with expiration expiry_date
\* that was not there before the call
NewUnit(path, product_id, expiry_date) ==
    /\ Zone_is_empty(zone_of(pre, path))
    /\ is_some(zone_of(warehouse, path).item)
    /\ zone_of(warehouse, path).item[1].id = product_id
    /\ zone_of(warehouse, path).item[1].expiry_date = expiry_date

\* the call filled exactly the zones scan[i + 1], ..., scan[i + n] and left
\* the occupant of every other zone as it was
FilledRun(scan, i, n) ==
    \A k \in 1..Len(scan) :
        IF i < k /\ k <= i + n
        THEN NewUnit(scan[k], last.product_id, last.expiry_date)
        ELSE zone_of(warehouse, scan[k]).item = zone_of(pre, scan[k]).item

\* C18: a successful add_items(p, n, d) of an absent product fills exactly
\* the n consecutive zones, in scan order, that begin at the position
\* find_contiguous_space(n) returned (the first run of n empty zones), each
\* with a unit of product p and expiration d.
C18_CaseAPlacement ==
    (AddReturnedOk /\ last.case = "A") =>
        Let(ScanOrder(pre), LAMBDA scan :
            Let(find_contiguous_space(pre, last.qty), LAMBDA found :
                /\ found.res = Ok
                /\ \E i \in 0..(Len(scan) - last.qty) :
                       /\ scan[i + 1] = found.pos[1]
                       /\ \A j \in EmptyRuns(pre, scan, last.qty) : i <= j
                       /\ FilledRun(scan, i, last.qty)))

\* a batch that starts after an occupied zone and runs on into the next row
C18_Witness ==
    /\ AddReturnedOk /\ last.case = "A"
    /\ \E q \in Paths(pre) : ~Zone_is_empty(zone_of(pre, q))
    /\ \E x, y \in Holding(warehouse, last.product_id) : x[1] # y[1]
    /\ ~Zone_holds(zone_of(warehouse, <<1, 1, 1>>), last.product_id)

\* the index in scan of the last zone that held the product before the call
LastHeld(scan, product_id) ==
    CHOOSE k \in 1..Len(scan) :
        /\ Zone_holds(zone_of(pre, scan[k]), product_id)
        /\ \A j \in (k + 1)..Len(scan) : ~Zone_holds(zone_of(pre, scan[j]), product_id)

\* the indices of the first n zones after scan[from] that were empty before
\* the call
FirstEmptyAfter(scan, from, n) ==
    {k \in (from + 1)..Len(scan) :
        /\ Zone_is_empty(zone_of(pre, scan[k]))
        /\ Cardinality({j \in (from + 1)..(k - 1) : Zone_is_empty(zone_of(pre, scan[j]))}) < n}

FilledAfterLast(scan, targets) ==
    /\ Cardinality(targets) = last.qty
    /\ \A k \in 1..Len(scan) :
           IF k \in targets
           THEN NewUnit(scan[k], last.product_id, last.expiry_date)
           ELSE zone_of(warehouse, scan[k]).item = zone_of(pre, scan[k]).item

\* C19: a successful add_items(p, n, d) of a product stored in one contiguous
\* run puts the n new units into the first n empty zones that follow p's last
\* occupied zone in scan order, and changes no other zone.
C19_CaseBPlacement ==
    (AddReturnedOk /\ last.case = "B") =>
        Let(ScanOrder(pre), LAMBDA scan :
            FilledAfterLast(scan,
                FirstEmptyAfter(scan, LastHeld(scan, last.product_id), last.qty)))

\* C20: when add_items returns an error, no occupant and no counter of the
\* grid differs from its value before the call.
C20_FailedAddChangesNothing ==
    (last.op = "add_items_by_qty" /\ Returned /\ last.res # Ok) => warehouse = pre
\* the occupant of the zone numbered position in w (None when the zone does
\* not exist or is empty)
OccupantAt(w, position) ==
    Let(zone(w, position[1], position[2], position[3]), LAMBDA zo :
        IF is_none(zo) THEN None ELSE zo[1].item)

MoveFailed ==
    last.op = "move_item"
    /\ last.res.kind \in {"ZoneOccupied", "ZoneNotFound", "ColumnNotFound",
                          "RowNotFound", "ZoneEmpty"}

\* C21: when move_item(source, destination) returns an error, the grid is
\* as before the call (the source still holds its occupant, every counter is
\* unchanged); when it returns success, the destination holds an occupant
\* with the product id and expiration the source held, the source is empty
\* and the grid's available_space is unchanged.
C21_MoveAllOrNothing ==
    /\ MoveFailed => warehouse = pre
    /\ (last.op = "move_item" /\ last.res = Ok) =>
           Let(OccupantAt(pre, last.pos[1][1]), LAMBDA moved :
               /\ is_some(moved)
               /\ Let(OccupantAt(warehouse, last.pos[1][2]), LAMBDA placed :
                      /\ is_some(placed)
                      /\ placed[1].id = moved[1].id
                      /\ placed[1].expiry_date = moved[1].expiry_date)
               /\ is_none(OccupantAt(warehouse, last.pos[1][1]))
               /\ warehouse.available_space = pre.available_space)

\* a dated unit was moved to another zone
C21_Witness ==
    /\ last.op = "move_item" /\ last.res = Ok
    /\ is_some(OccupantAt(warehouse, last.pos[1][2]))
    /\ is_some(OccupantAt(warehouse, last.pos[1][2])[1].expiry_date)

\* a move onto an occupied zone other than the source was refused
C21_WitnessRefused ==
    /\ last.op = "move_item" /\ last.res.kind = "ZoneOccupied"
    /\ last.pos[1][1] # last.pos[1][2]
    /\ is_some(OccupantAt(warehouse, last.pos[1][1]))

\* the occurrences occ (paths in scan order, two or more) lie in one row and
\* one column and their zone indices go up by exactly 1
OneColumnRun(occ) ==
    \A i \in 2..Len(occ) :
        /\ occ[i][1] = occ[i - 1][1]
        /\ occ[i][2] = occ[i - 1][2]
        /\ occ[i][3] = occ[i - 1][3] + 1

ContiguityAnswered == last.op = "is_product_stored_contiguously"

\* C22: is_stored_contiguously(p) returns true when p has zero occurrences
\* or exactly one; with two or more it returns true if and only if all
\* occurrences are in the same row and the same column and their zone
\* indices, in scan order, increase by exactly 1 from each to the next.
C22_Contiguity ==
    ContiguityAnswered =>
        Let(HoldingInOrder(warehouse, last.product_id), LAMBDA occ :
            last.pos[1] = (Len(occ) <= 1 \/ OneColumnRun(occ)))

\* C22 as amended: false when p has no occurrence, true when it has exactly
\* one; with two or more, true if and only if the occurrences are in one row
\* and one column and their zone indices increase by exactly 1.
C22_ContiguityAmended ==
    ContiguityAnswered =>
        Let(HoldingInOrder(warehouse, last.product_id), LAMBDA occ :
            last.pos[1] = (Len(occ) >= 1 /\ (Len(occ) = 1 \/ OneColumnRun(occ))))

\* the answer was false for two units in the same row, in neighbouring
\* columns, at zone indices that go up by 1
C22_Witness ==
    /\ ContiguityAnswered
    /\ last.pos[1] = FALSE
    /\ Let(HoldingInOrder(warehouse, last.product_id), LAMBDA occ :
           /\ Len(occ) = 2
           /\ occ[2][1] = occ[1][1]
           /\ occ[2][2] = occ[1][2] + 1
           /\ occ[2][3] = occ[1][3] + 1)

\* the answer was true for two units in one column
C22_WitnessRun ==
    /\ ContiguityAnswered
    /\ last.pos[1] = TRUE
    /\ Len(HoldingInOrder(warehouse, last.product_id)) = 2

PositionAnswered == last.op = "flat_map_position_to_zone"

\* C23: for every flat index i below the grid's capacity,
\* flat_map_position_to_zone(i) is the (row, column, zone) of an existing
\* zone that is empty exactly when marker i of flat_map is 0, and no lower
\* index has the same answer (so no two indices share a zone); for i at or
\* above the capacity the answer is none.
C23_PositionAgreesWithFlatMap ==
    PositionAnswered =>
        IF last.qty < warehouse.capacity
        THEN /\ is_some(last.pos)
             /\ Let(zone(warehouse, last.pos[1][1], last.pos[1][2], last.pos[1][3]),
                    LAMBDA zo :
                    /\ is_some(zo)
                    /\ Zone_is_empty(zo[1]) <=> (flat_map(warehouse)[last.qty + 1] = 0))
             /\ \A j \in 0..(last.qty - 1) :
                    flat_map_position_to_zone(warehouse, j) # last.pos
        ELSE is_none(last.pos)

\* the position asked for is an occupied zone that follows an empty one, in
\* a column other than the first
C23_Witness ==
    /\ PositionAnswered
    /\ is_some(last.pos)
    /\ last.pos[1][2] >= 2
    /\ flat_map(warehouse)[last.qty + 1] = 1
    /\ \E j \in 1..last.qty : flat_map(warehouse)[j] = 0

\* a position at or above the capacity was asked for
C23_WitnessBeyond ==
    PositionAnswered /\ last.qty >= warehouse.capacity /\ is_none(last.pos)

\* the occupant of the zone at path records the zone's own numbers, and
\* those are the zone's 1-based place in its column, row and grid
RecordsOwnZone(w, path) ==
    Let(zone_of(w, path), LAMBDA zo :
        /\ <<zo.row_number, zo.column_number, zo.zone_number>> = path
        /\ <<zo.item[1].row, zo.item[1].column, zo.item[1].zone>> = path)

C25_AddDeterministic ==
    last.op = "add_items_by_qty" =>
        \A order \in add_orders(pre, last.product_id, last.qty) :
            add_items_by_qty(pre, last.product_id, last.qty, last.expiry_date, order)
                = [v |-> warehouse, res |-> last.res]

\* capacity and available_space of the grid are the sums over its rows, and
\* row_count is the number of rows
GridAgrees(w) ==
    /\ w.capacity = SumSeq([i \in 1..Len(w.rows) |-> w.rows[i].capacity])
    /\ w.available_space = SumSeq([i \in 1..Len(w.rows) |-> w.rows[i].available_space])
    /\ w.row_count = Len(w.rows)

\* the same of a row and its columns
RowAgrees(r) ==
    /\ r.capacity = SumSeq([j \in 1..Len(r.columns) |-> r.columns[j].capacity])
    /\ r.available_space = SumSeq([j \in 1..Len(r.columns) |-> r.columns[j].available_space])
    /\ r.column_count = Len(r.columns)

\* a column's capacity is its number of zones and its available_space the
\* number of its empty zones
ColumnAgrees(col) ==
    /\ col.capacity = Len(col.zones)
    /\ col.available_space = EmptyZones(col)

\* the parent an administrative call was made on agrees with its children
ParentAgrees(w) ==
    IF last.pos[1] = <<>> THEN GridAgrees(w)
    ELSE IF Len(last.pos[1]) = 1 THEN RowAgrees(w.rows[last.pos[1][1]])
    ELSE ColumnAgrees(w.rows[last.pos[1][1]].columns[last.pos[1][2]])

AdminOps ==
    {"add_row", "remove_row", "add_column", "remove_column", "add_zone", "remove_zone"}

\* C26: after a successful remove_column, remove_row or remove_zone (and
\* after add_column, add_row, add_zone) on a parent whose counters agreed
\* with its children, the parent's capacity and available_space equal the
\* sums over its remaining children and its child count their number;
\* removing a child that does not exist returns ColumnNotFound, RowNotFound
\* or ZoneNotFound and changes nothing.
C26_StructuralAggregates ==
    (last.op \in AdminOps /\ Returned /\ ParentAgrees(pre)) =>
        IF last.res = Ok THEN ParentAgrees(warehouse) ELSE warehouse = pre

\* ---------------------------------------------------------------- C27
\* the grid w with every occupant's recorded position blanked
PositionsBlanked(w) ==
    [w EXCEPT !.rows = [ri \in 1..Len(w.rows) |->
        [w.rows[ri] EXCEPT !.columns = [ci \in 1..Len(w.rows[ri].columns) |->
            [w.rows[ri].columns[ci] EXCEPT !.zones =
                [zi \in 1..Len(w.rows[ri].columns[ci].zones) |->
                    Let(w.rows[ri].columns[ci].zones[zi], LAMBDA zo :
                        IF is_none(zo.item) THEN zo
                        ELSE [zo EXCEPT !.item = Some([zo.item[1] EXCEPT
                                  !.row = 0, !.column = 0, !.zone = 0])])]]]]]]

\* load has just read back the file that save wrote from this very grid
LoadedBack ==
    /\ last.op = "load" /\ last.res = Ok
    /\ file = Some(Storage_to_json(product_list, pre))

\* C27: saving a Storage and loading it back gives the same grid, field for
\* field: the same numbers and counters in every row, column and slot, and
\* for every occupant the same product id, the same (row, column, slot)
\* position and the same expiration as before saving.
C27_SaveLoadRoundTrip == LoadedBack => warehouse = pre

\* an occupied grid was saved and loaded back
C27_Witness ==
    /\ LoadedBack
    /\ pre.available_space < pre.capacity
    /\ \E ri \in 1..Len(pre.rows) : \E ci \in 1..Len(pre.rows[ri].columns) :
         \E zi \in 1..Len(pre.rows[ri].columns[ci].zones) :
             /\ is_some(pre.rows[ri].columns[ci].zones[zi].item)
             /\ is_some(pre.rows[ri].columns[ci].zones[zi].item[1].expiry_date)

\* what does come back: everything but the occupants' positions, and the
\* catalog
C27_AllButPositions ==
    LoadedBack => /\ PositionsBlanked(warehouse) = PositionsBlanked(pre)
                  /\ warehouse = PositionsBlanked(warehouse)

\* ---------------------------------------------------------------- C28
\* usize counters: a value below zero stands for one wrapped past 2^64
InRange(available_space, capacity) == 0 <= available_space /\ available_space <= capacity

CountersInRange(w) ==
    /\ InRange(w.available_space, w.capacity)
    /\ \A ri \in 1..Len(w.rows) :
         /\ InRange(w.rows[ri].available_space, w.rows[ri].capacity)
         /\ \A ci \in 1..Len(w.rows[ri].columns) :
              InRange(w.rows[ri].columns[ci].available_space,
                      w.rows[ri].columns[ci].capacity)

\* C28: in every state reachable from an initialized grid through add_items,
\* remove_items and remove_all_items, 0 <= available_space <= capacity at
\* grid, row and column level: no decrement takes a counter below zero and
\* no increment takes it above the capacity.
C28_CountersInRange == CountersInRange(warehouse)

\* the same at row and column level only
C28_RowAndColumnCounters ==
    \A ri \in 1..Len(warehouse.rows) :
        /\ InRange(warehouse.rows[ri].available_space, warehouse.rows[ri].capacity)
        /\ \A ci \in 1..Len(warehouse.rows[ri].columns) :
             InRange(warehouse.rows[ri].columns[ci].available_space,
                     warehouse.rows[ri].columns[ci].capacity)

\* ---------------------------------------------------------------- C29
RemovalCalled == last.op \in {"remove_item_by_qty", "remove_all_items"}

\* the zones of w whose occupant is of another product than product_id
HoldingOther(w, product_id) ==
    {q \in Paths(w) : /\ is_some(zone_of(w, q).item)
                      /\ zone_of(w, q).item[1].id # product_id}

\* C29: remove_items(p, n) and remove_all_items(p) only touch slots occupied
\* by p: after either call, succeeded or failed, every slot whose occupant was
\* of a product other than p still holds the same occupant.
C29_RemovalTouchesOnlyProduct ==
    RemovalCalled =>
        \A q \in HoldingOther(pre, last.product_id) :
            zone_of(warehouse, q).item = zone_of(pre, q).item

\* the same for remove_all_items alone
C29_RemoveAllTouchesOnlyProduct ==
    last.op = "remove_all_items" =>
        \A q \in HoldingOther(pre, last.product_id) :
            zone_of(warehouse, q).item = zone_of(pre, q).item

\* ---------------------------------------------------------------- C30
StockOps == {"restock_product", "restock_by_name", "remove_stock", "empty_stock"}

\* the number of occupants of product id placed in w
Stored(w, id) == Cardinality(Holding(w, id))

QuantitiesAgree ==
    \A id \in DOMAIN product_list : product_list[id].quantity = Stored(warehouse, id)

\* remove_stock took more off the quantity than the quantity held: the removal
\* in the warehouse had succeeded and the subtraction panicked (with overflow
\* checks) or left a wrapped quantity (without)
QuantityUnderflowed ==
    /\ last.op = "remove_stock"
    /\ last.product_id \in DOMAIN product_list
    /\ remove_item_by_qty(pre, last.product_id, last.qty).res = Ok
    /\ \/ last.res = Panic
       \/ last.res = Ok /\ product_list[last.product_id].quantity < 0

\* C30: after any sequence of successful restock_product, restock_by_name,
\* remove_stock and empty_stock calls, each catalog product's quantity is the
\* number of its occupants placed in the warehouse, and no quantity update
\* underflows.
C30_QuantityIsStock ==
    /\ (last.op \in StockOps /\ last.res = Ok) => QuantitiesAgree
    /\ ~QuantityUnderflowed

\* the underflow half alone
C30_NoQuantityUnderflow == ~QuantityUnderflowed

====
